---------------------------- MODULE Spec2Model ----------------------------
(***************************************************************************)
(* A model of pdf-bookmark: pdf_bookmark.py (numeral codec, pdftk dump     *)
(* parser, bmk outline text codec, pdfmark emitter, generate_pdf) and      *)
(* pdf-merge.py (generate_pdfmarks, merge_pdfs).                           *)
(*                                                                         *)
(* Text is modelled as a sequence of characters, each character a          *)
(* one-character string; a text file is a sequence of lines.               *)
(***************************************************************************)
EXTENDS Integers, Sequences, FiniteSets, TLC

VARIABLES
    \* --- marking-language emitter (export_pdfmark, generate_pdfmarks) ---
    mk_fn,          \* which emitter runs: "export_pdfmark" | "generate_pdfmarks" | "idle"
    mk_pc,          \* "start" | "loop" | "done"
    mk_inputs,      \* generate_pdfmarks: the input pdfs, each [pages, bookmarks]
    mk_docinfo,     \* generate_pdfmarks: [title, author, keywords] (empty = not given)
    mk_bookmarks,   \* the bookmark list the emitting loop iterates over
    mk_i,           \* number of bookmarks already emitted (the loop index i)
    mk_out          \* the statements emitted so far, in order

mkVars == <<mk_fn, mk_pc, mk_inputs, mk_docinfo, mk_bookmarks, mk_i, mk_out>>

VARIABLES
    \* --- numeral codec called back and forth ---
    nc_kind,        \* "Roman" | "Letters" | "idle"
    nc_origin,      \* what the first call was given: "arabic" | "numeral"
    nc_in,          \* the first call's argument: [n |-> integer, s |-> text]
    nc_pc,          \* "have_arabic" | "have_numeral" | "raised"
    nc_arabic,      \* the integer last passed or returned
    nc_numeral,     \* the numeral text last passed or returned
    nc_err,         \* the exception raised ("none" when none)
    nc_calls        \* number of codec calls that returned

ncVars == <<nc_kind, nc_origin, nc_in, nc_pc, nc_arabic, nc_numeral, nc_err, nc_calls>>

VARIABLES
    \* --- rendering with temporary files (generate_pdf, merge_pdfs) ---
    tf_fn,          \* "generate_pdf" | "merge_pdfs" | "idle"
    tf_arg,         \* the call's arguments: [pdfmarks, output, pause, inputs]
    tf_pc,          \* the statement the call is at; "returned" or "raised" at its end
    tf_files,       \* the temporary files of this call that exist on disk
    tf_fds,         \* the descriptors of this call that are open
    tf_args         \* the Ghostscript command line built so far

tfVars == <<tf_fn, tf_arg, tf_pc, tf_files, tf_fds, tf_args>>

VARIABLES
    \* --- dump parser (import_pdftk) ---
    pk_collapse_level,  \* the collapse_level argument
    pk_text,            \* the dump's lines when the dump is a fixed example; <<>> when
                        \* the dump is any text, its next line chosen at each step
    pk_n,               \* lines of pk_text consumed
    pk_pc,              \* "loop" | "returned" | "raised"
    pk_line,            \* the line the last iteration of the loop processed
    pk_info,            \* bookmark_info: per record kind, the fields accumulated
    pk_out,             \* bookmarks: per record kind, the records completed
    pk_err              \* the exception raised ("none" when none)

pkVars == <<pk_collapse_level, pk_text, pk_n, pk_pc, pk_line, pk_info, pk_out, pk_err>>

VARIABLES
    \* --- outline text codec (export_bmk, import_bmk) ---
    bk_mode,            \* "trip": a bookmark set is exported and the text imported;
                        \* "text": any text is imported, its next line chosen at
                        \* each step; "idle"
    bk_B,               \* trip: the bookmark set given to export_bmk
    bk_text,            \* trip: the text export_bmk returned
    bk_lines,           \* trip: bookmark_data.splitlines()
    bk_collapse_level,  \* the collapse_level argument of import_bmk
    bk_n,               \* lines consumed by the loop of import_bmk
    bk_pc,              \* "export" | "loop" | "returned" | "raised"
    bk_line,            \* the line the last iteration of the loop processed
    bk_cfg,             \* page_config
    bk_saved,           \* page_label_saved
    bk_out,             \* bookmarks: [bookmark, page_label]
    bk_err              \* the exception raised ("none" when none)

bkVars == <<bk_mode, bk_B, bk_text, bk_lines, bk_collapse_level, bk_n, bk_pc, bk_line,
            bk_cfg, bk_saved, bk_out, bk_err>>

VARIABLES
    \* --- title codec of the marking language (_pdfmark_unicode and its decoder) ---
    uc_in,              \* the text given to _pdfmark_unicode
    uc_pc,              \* "start" | "encoded" | "decoded" | "raised" ("idle" when unused)
    uc_enc,             \* what _pdfmark_unicode returned
    uc_dec,             \* what _pdfmark_unicode_decode returned
    uc_err              \* the exception raised ("none" when none)

ucVars == <<uc_in, uc_pc, uc_enc, uc_dec, uc_err>>

VARIABLES
    \* --- command line (main) ---
    ma_args,            \* [format, bookmark, pdf, output_pdf]: the parsed arguments,
                        \* the three file options TRUE when given
    ma_pc,              \* the statement main is at; "returned" or "raised" at its end
    ma_pdfmark,         \* whether the local pdfmark has been assigned
    ma_stdout,          \* what was written to standard output, in order
    ma_stderr,          \* what was written to standard error, in order
    ma_ret,             \* the value main returned (-1: none)
    ma_err              \* the exception raised ("none" when none)

maVars == <<ma_args, ma_pc, ma_pdfmark, ma_stdout, ma_stderr, ma_ret, ma_err>>

vars == <<mkVars, ncVars, tfVars, pkVars, bkVars, ucVars, maVars>>

\* every variable outside one component, which that component's steps leave alone
notMk == <<ncVars, tfVars, pkVars, bkVars, ucVars, maVars>>
notNc == <<mkVars, tfVars, pkVars, bkVars, ucVars, maVars>>
notTf == <<mkVars, ncVars, pkVars, bkVars, ucVars, maVars>>
notPk == <<mkVars, ncVars, tfVars, bkVars, ucVars, maVars>>
notBk == <<mkVars, ncVars, tfVars, pkVars, ucVars, maVars>>
notUc == <<mkVars, ncVars, tfVars, pkVars, bkVars, maVars>>
notMa == <<mkVars, ncVars, tfVars, pkVars, bkVars, ucVars>>

(***************************************************************************)
(* Strings                                                                 *)
(***************************************************************************)
Digits == <<"0", "1", "2", "3", "4", "5", "6", "7", "8", "9">>

UpperLetters == <<"A", "B", "C", "D", "E", "F", "G", "H", "I", "J", "K", "L", "M",
                  "N", "O", "P", "Q", "R", "S", "T", "U", "V", "W", "X", "Y", "Z">>

LowerLetters == <<"a", "b", "c", "d", "e", "f", "g", "h", "i", "j", "k", "l", "m",
                  "n", "o", "p", "q", "r", "s", "t", "u", "v", "w", "x", "y", "z">>

Range(s) == {s[k] : k \in DOMAIN s}

\* position of c in the table t (0 when absent)
IndexOf(t, c) == IF c \in Range(t) THEN CHOOSE k \in DOMAIN t : t[k] = c ELSE 0

\* s * n : the string s repeated n times (empty when n <= 0)
RECURSIVE Repeat(_, _)
Repeat(s, n) == IF n <= 0 THEN <<>> ELSE s \o Repeat(s, n - 1)

\* str.format of a non-negative integer
RECURSIVE NatToStr(_)
NatToStr(n) == IF n < 10 THEN <<Digits[n + 1]>>
               ELSE NatToStr(n \div 10) \o <<Digits[(n % 10) + 1]>>

\* '{}'.format(n) for an integer n
IntToStr(n) == IF n < 0 THEN <<"-">> \o NatToStr(0 - n) ELSE NatToStr(n)

\* str.startswith
StartsWith(s, prefix) ==
    Len(prefix) <= Len(s) /\ SubSeq(s, 1, Len(prefix)) = prefix

\* str.find: the first (1-based) position where sub occurs in s, 0 when nowhere
Find(s, sub) ==
    LET hits == {k \in 1..(Len(s) - Len(sub) + 1) : SubSeq(s, k, k + Len(sub) - 1) = sub}
    IN  IF hits = {} THEN 0 ELSE CHOOSE k \in hits : \A h \in hits : k <= h

\* s[k:] for a 1-based position k
From(s, k) == SubSeq(s, k, Len(s))

\* the characters str.strip, str.lstrip and int() treat as blank
Whitespace == {" ", "\t", "\n", "\r", "\f"}

RECURSIVE LStrip(_)
LStrip(s) == IF s # <<>> /\ Head(s) \in Whitespace THEN LStrip(Tail(s)) ELSE s

RECURSIVE RStrip(_)
RStrip(s) ==
    IF s # <<>> /\ s[Len(s)] \in Whitespace THEN RStrip(SubSeq(s, 1, Len(s) - 1)) ELSE s

Strip(s) == LStrip(RStrip(s))

\* str.split(sep, 1): the text before and after the first sep; ok is FALSE
\* when sep does not occur (unpacking the result into two names then fails)
SplitOnce(s, sep) ==
    LET k == Find(s, sep)
    IN  IF k = 0 THEN [ok |-> FALSE, head |-> s, tail |-> <<>>]
        ELSE [ok |-> TRUE, head |-> SubSeq(s, 1, k - 1), tail |-> From(s, k + Len(sep))]

\* the value of a run of decimal digits
RECURSIVE DigitsValue(_)
DigitsValue(ds) ==
    IF ds = <<>> THEN 0
    ELSE 10 * DigitsValue(SubSeq(ds, 1, Len(ds) - 1)) + (IndexOf(Digits, ds[Len(ds)]) - 1)

\* int(s): blanks around the number are dropped; an optional sign, then decimal
\* digits, single underscores allowed between digits. ok is FALSE where int
\* raises ValueError
StrToInt(s) ==
    LET t      == Strip(s)
        signed == t # <<>> /\ Head(t) \in {"+", "-"}
        body   == IF signed THEN Tail(t) ELSE t
        ds     == SelectSeq(body, LAMBDA c : c # "_")
        wellformed ==
            /\ ds # <<>>
            /\ \A k \in DOMAIN ds : ds[k] \in Range(Digits)
            /\ body[1] # "_" /\ body[Len(body)] # "_"
            /\ \A k \in 1..(Len(body) - 1) : ~(body[k] = "_" /\ body[k + 1] = "_")
    IN  IF ~wellformed THEN [ok |-> FALSE, val |-> 0]
        ELSE [ok |-> TRUE,
              val |-> IF signed /\ Head(t) = "-" THEN 0 - DigitsValue(ds) ELSE DigitsValue(ds)]

\* str.upper, on the letters a-z
Upper(s) ==
    [k \in DOMAIN s |-> IF s[k] \in Range(LowerLetters)
                        THEN UpperLetters[IndexOf(LowerLetters, s[k])] ELSE s[k]]

(***************************************************************************)
(* Numeral codec: Roman                                                    *)
(***************************************************************************)
\* _ROMAN_NUMERAL_PAIR, in table order
ROMAN_NUMERAL_PAIR ==
    << <<(<<"M">>), 1000>>, <<(<<"C", "M">>), 900>>, <<(<<"D">>), 500>>,
       <<(<<"C", "D">>), 400>>, <<(<<"C">>), 100>>, <<(<<"X", "C">>), 90>>,
       <<(<<"L">>), 50>>, <<(<<"X", "L">>), 40>>, <<(<<"X">>), 10>>,
       <<(<<"I", "X">>), 9>>, <<(<<"V">>), 5>>, <<(<<"I", "V">>), 4>>,
       <<(<<"I">>), 1>> >>

\* _ROMAN_NUMERAL_MAP: the value of a symbol of the pair table; the symbols a
\* matched numeral is indexed with are the single characters
RomanSymbols == {"M", "D", "C", "L", "X", "V", "I"}

ROMAN_NUMERAL_MAP(c) ==
    LET k == CHOOSE k \in DOMAIN ROMAN_NUMERAL_PAIR : ROMAN_NUMERAL_PAIR[k][1] = <<c>>
    IN  ROMAN_NUMERAL_PAIR[k][2]

\* The language of _ROMAN_NUMERAL_PATTERN, group by group:
\*   M{0,4} (CM|CD|D?C{0,3}) (XC|XL|L?X{0,3}) (IX|IV|V?I{0,3})
RomanGroup(one, five, ten) ==
    {<<one, ten>>, <<one, five>>}
        \cup {Repeat(<<five>>, f) \o Repeat(<<one>>, k) : f \in 0..1, k \in 0..3}

RomanThousands == {Repeat(<<"M">>, k) : k \in 0..4}

RomanPatternLanguage ==
    {m \o h \o t \o o : m \in RomanThousands, h \in RomanGroup("C", "D", "M"),
                        t \in RomanGroup("X", "L", "C"), o \in RomanGroup("I", "V", "X")}

\* _ROMAN_NUMERAL_PATTERN.match(roman): the pattern is anchored with ^ and $,
\* and $ also matches just before one trailing newline
RomanPatternMatch(roman) ==
    \/ roman \in RomanPatternLanguage
    \/ /\ Len(roman) > 0
       /\ roman[Len(roman)] = "\n"
       /\ SubSeq(roman, 1, Len(roman) - 1) \in RomanPatternLanguage

\* the summation loop of roman_to_arabic, from position i on
RECURSIVE RomanSum(_, _)
RomanSum(roman, i) ==
    IF i > Len(roman) THEN 0
    ELSE (IF i = Len(roman) \/ ROMAN_NUMERAL_MAP(roman[i]) >= ROMAN_NUMERAL_MAP(roman[i + 1])
          THEN ROMAN_NUMERAL_MAP(roman[i])
          ELSE 0 - ROMAN_NUMERAL_MAP(roman[i]))
         + RomanSum(roman, i + 1)

\* roman_to_arabic: [err |-> "none", val |-> n] or [err |-> <exception>]
roman_to_arabic(roman) ==
    IF roman = <<>> THEN [err |-> "InvalidRomanNumeralError", val |-> 0]
    ELSE IF roman = <<"N">> THEN [err |-> "none", val |-> 0]
    ELSE IF ~RomanPatternMatch(roman) THEN [err |-> "InvalidRomanNumeralError", val |-> 0]
    ELSE IF \E k \in DOMAIN roman : roman[k] \notin RomanSymbols
         THEN [err |-> "KeyError", val |-> 0]       \* _ROMAN_NUMERAL_MAP[...] lookup fails
    ELSE [err |-> "none", val |-> RomanSum(roman, 1)]

\* largest value arabic_to_roman accepts
ROMAN_MAX == 4999

\* RomanDigits with a plausible slip: the subtractive pairs of the table are
\* skipped, so 4 becomes IIII and 900 becomes DCCCC
RECURSIVE RomanDigits_NoSubtractive(_, _)
RomanDigits_NoSubtractive(remain, k) ==
    IF k > Len(ROMAN_NUMERAL_PAIR) THEN <<>>
    ELSE LET digit     == ROMAN_NUMERAL_PAIR[k][1]
             unit      == ROMAN_NUMERAL_PAIR[k][2]
             digit_num == IF Len(digit) = 1 THEN remain \div unit ELSE 0
         IN  Repeat(digit, digit_num)
                \o RomanDigits_NoSubtractive(remain - unit * digit_num, k + 1)

\* the greedy loop of arabic_to_roman over the pair table, from pair k on
RECURSIVE RomanDigits(_, _)
RomanDigits(remain, k) ==
    IF k > Len(ROMAN_NUMERAL_PAIR) THEN <<>>
    ELSE LET digit     == ROMAN_NUMERAL_PAIR[k][1]
             unit      == ROMAN_NUMERAL_PAIR[k][2]
             digit_num == remain \div unit
         IN  Repeat(digit, digit_num) \o RomanDigits(remain - unit * digit_num, k + 1)

\* arabic_to_roman: [err |-> "none", val |-> text] or [err |-> <exception>]
arabic_to_roman(arabic) ==
    IF arabic < 0 \/ arabic > ROMAN_MAX THEN [err |-> "RomanOutOfRangeError", val |-> <<>>]
    ELSE IF arabic = 0 THEN [err |-> "none", val |-> <<"N">>]
    ELSE [err |-> "none", val |-> RomanDigits(arabic, 1)]

(***************************************************************************)
(* Numeral codec: Letters                                                  *)
(***************************************************************************)
\* letters_to_arabic with a plausible slip: only the first letter is looked at,
\* the check that the others repeat it is missing
letters_to_arabic_FirstOnly(letters) ==
    IF letters = <<>> THEN [err |-> "none", val |-> 0]
    ELSE IF letters[1] \notin Range(UpperLetters)
         THEN [err |-> "InvalidLettersNumeralError", val |-> 0]
    ELSE [err |-> "none",
          val |-> Len(letters) * 26 - 25 + (IndexOf(UpperLetters, letters[1]) - 1)]

\* letters_to_arabic
letters_to_arabic(letters) ==
    IF letters = <<>> THEN [err |-> "none", val |-> 0]
    ELSE IF letters[1] \notin Range(UpperLetters)
         THEN [err |-> "InvalidLettersNumeralError", val |-> 0]
    ELSE IF \E k \in 2..Len(letters) : letters[k] # letters[1]
         THEN [err |-> "InvalidLettersNumeralError", val |-> 0]
    ELSE [err |-> "none",
          val |-> Len(letters) * 26 - 25 + (IndexOf(UpperLetters, letters[1]) - 1)]

\* arabic_to_letters with a plausible slip in the run length: arabic // 26 + 1
\* letters, one too many at the multiples of 26
arabic_to_letters_LongRun(arabic) ==
    IF arabic < 0 THEN [err |-> "LettersOutOfRangeError", val |-> <<>>]
    ELSE IF arabic = 0 THEN [err |-> "none", val |-> <<>>]
    ELSE [err |-> "none",
          val |-> Repeat(<<UpperLetters[((arabic - 1) % 26) + 1]>>, (arabic \div 26) + 1)]

\* arabic_to_letters
arabic_to_letters(arabic) ==
    IF arabic < 0 THEN [err |-> "LettersOutOfRangeError", val |-> <<>>]
    ELSE IF arabic = 0 THEN [err |-> "none", val |-> <<>>]
    ELSE [err |-> "none",
          val |-> Repeat(<<UpperLetters[((arabic - 1) % 26) + 1]>>, (arabic + 25) \div 26)]

(***************************************************************************)
(* The numeral codec as a state machine: a value is converted, and the     *)
(* result converted back                                                   *)
(***************************************************************************)
\* largest integer and longest letter run the Letters codec is given
MaxLettersArabic == 110
MaxLettersLen == 5
\* a conversion and the conversion back
RoundTripCalls == 2

\* texts the Roman decoder must refuse (test_pdf_bookmark.py INVALID_ROMAN and
\* the spec's examples), and one ending in a newline
InvalidRomanExamples ==
    { <<>>, <<"i", "i">>, <<"I", "I", "I", "I", "I">>, <<"I", "D">>, <<"X", "M">>,
      <<"I", "I", "I", "I">>, <<"V", "X">>, <<"1", "2", "3", "4", "5">>, <<"I", "\n">> }

\* texts the Letters decoder must refuse (test_pdf_bookmark.py INVALID_LETTERS)
InvalidLettersExamples ==
    { <<"0">>, <<"a">>, <<"A", "B", "C">>, <<"A", "A", "A", "A", "A", "A", "8">>,
      <<"9", "B", "B", "B", "B">> }

RomanTexts == RomanPatternLanguage \cup {<<"N">>} \cup InvalidRomanExamples

LettersTexts ==
    {Repeat(<<UpperLetters[c]>>, k) : c \in DOMAIN UpperLetters, k \in 0..MaxLettersLen}
        \cup InvalidLettersExamples

NumeralIdle ==
    /\ nc_kind = "idle"
    /\ nc_origin = "arabic"
    /\ nc_in = [n |-> 0, s |-> <<>>]
    /\ nc_pc = "raised"
    /\ nc_arabic = 0
    /\ nc_numeral = <<>>
    /\ nc_err = "none"
    /\ nc_calls = 0

NumeralStart ==
    /\ nc_kind \in {"Roman", "Letters"}
    /\ nc_origin \in {"arabic", "numeral"}
    /\ nc_arabic \in IF nc_origin = "numeral" THEN {0}
                     ELSE IF nc_kind = "Roman" THEN (0 - 1)..(ROMAN_MAX + 1)
                     ELSE (0 - 1)..MaxLettersArabic
    /\ nc_numeral \in IF nc_origin = "arabic" THEN {<<>>}
                      ELSE IF nc_kind = "Roman" THEN RomanTexts
                      ELSE LettersTexts
    /\ nc_in = [n |-> nc_arabic, s |-> nc_numeral]
    /\ nc_pc = IF nc_origin = "arabic" THEN "have_arabic" ELSE "have_numeral"
    /\ nc_err = "none"
    /\ nc_calls = 0

\* the outcome r of a codec call that was given an integer
FromArabic(r) ==
    /\ nc_pc' = IF r.err = "none" THEN "have_numeral" ELSE "raised"
    /\ nc_err' = r.err
    /\ nc_numeral' = IF r.err = "none" THEN r.val ELSE nc_numeral
    /\ nc_calls' = IF r.err = "none" THEN nc_calls + 1 ELSE nc_calls
    /\ UNCHANGED <<nc_kind, nc_origin, nc_in, nc_arabic>>
    /\ UNCHANGED notNc

\* the outcome r of a codec call that was given a numeral
FromNumeral(r) ==
    /\ nc_pc' = IF r.err = "none" THEN "have_arabic" ELSE "raised"
    /\ nc_err' = r.err
    /\ nc_arabic' = IF r.err = "none" THEN r.val ELSE nc_arabic
    /\ nc_calls' = IF r.err = "none" THEN nc_calls + 1 ELSE nc_calls
    /\ UNCHANGED <<nc_kind, nc_origin, nc_in, nc_numeral>>
    /\ UNCHANGED notNc

CallArabicToRoman ==
    /\ nc_kind = "Roman" /\ nc_pc = "have_arabic" /\ nc_calls < RoundTripCalls
    /\ FromArabic(arabic_to_roman(nc_arabic))

CallRomanToArabic ==
    /\ nc_kind = "Roman" /\ nc_pc = "have_numeral" /\ nc_calls < RoundTripCalls
    /\ FromNumeral(roman_to_arabic(nc_numeral))

CallArabicToLetters ==
    /\ nc_kind = "Letters" /\ nc_pc = "have_arabic" /\ nc_calls < RoundTripCalls
    /\ FromArabic(arabic_to_letters(nc_arabic))

CallLettersToArabic ==
    /\ nc_kind = "Letters" /\ nc_pc = "have_numeral" /\ nc_calls < RoundTripCalls
    /\ FromNumeral(letters_to_arabic(nc_numeral))

NumeralNext ==
    \/ CallArabicToRoman
    \/ CallRomanToArabic
    \/ CallArabicToLetters
    \/ CallLettersToArabic

(***************************************************************************)
(* Properties of the Roman codec                                           *)
(***************************************************************************)
\* 'N' and the non-empty texts of the canonical grammar
CanonicalRoman == (RomanPatternLanguage \ {<<>>}) \cup {<<"N">>}

\* C10: arabic_to_roman and roman_to_arabic are mutually inverse between 0..4999
\* and the canonical numerals: neither call fails there, arabic_to_roman returns
\* a canonical numeral, roman_to_arabic returns an integer of 0..4999, and the
\* conversion back returns the value the round trip started from.
C10_RomanBijection ==
    nc_kind = "Roman" =>
        /\ (nc_origin = "arabic" /\ nc_in.n \in 0..ROMAN_MAX) =>
              /\ nc_pc # "raised"
              /\ nc_calls >= 1 => nc_numeral \in CanonicalRoman
              /\ nc_calls = 2 => nc_arabic = nc_in.n
        /\ (nc_origin = "numeral" /\ nc_in.s \in CanonicalRoman) =>
              /\ nc_pc # "raised"
              /\ nc_calls >= 1 => nc_arabic \in 0..ROMAN_MAX
              /\ nc_calls = 2 => nc_numeral = nc_in.s

\* C10 witness: a four-symbol-group numeral went through both conversions
C10_Witness ==
    /\ nc_kind = "Roman"
    /\ nc_origin = "numeral"
    /\ nc_in.s = <<"M", "C", "M", "X", "C", "I", "X">>
    /\ nc_calls = 2
    /\ nc_numeral = nc_in.s

\* C12: roman_to_arabic rejects every text that is neither 'N' nor a non-empty
\* text of the canonical grammar (the empty text, lowercase, non-canonical
\* repetitions and orderings, a foreign character anywhere, the end included)
\* with InvalidRomanNumeralError: it never returns a number for one, and no
\* other error escapes.
C12_InvalidRomanRejected ==
    (nc_kind = "Roman" /\ nc_origin = "numeral" /\ nc_in.s \notin CanonicalRoman) =>
        \/ nc_pc = "have_numeral" /\ nc_calls = 0
        \/ nc_pc = "raised" /\ nc_err = "InvalidRomanNumeralError"

(***************************************************************************)
(* Properties of the Letters codec                                         *)
(***************************************************************************)
\* the empty text and the runs of one uppercase letter
LetterRuns ==
    {Repeat(<<UpperLetters[c]>>, k) : c \in DOMAIN UpperLetters, k \in 0..MaxLettersLen}

\* the values the claim names: A=1, Z=26, AA=27, ZZ=52, BBBBB=106
LettersExamples ==
    { <<<<"A">>, 1>>, <<<<"Z">>, 26>>, <<<<"A", "A">>, 27>>, <<<<"Z", "Z">>, 52>>,
      <<<<"B", "B", "B", "B", "B">>, 106>> }

\* C11: letters_to_arabic(arabic_to_letters(n)) = n for every n >= 0;
\* arabic_to_letters(letters_to_arabic(s)) = s for the empty text and every run
\* s of k >= 1 copies of one uppercase letter, whose value is k*26 - 25 + the
\* letter's distance from 'A' (A=1, Z=26, AA=27, ZZ=52, BBBBB=106).
C11_LettersBijection ==
    nc_kind = "Letters" =>
        /\ (nc_origin = "arabic" /\ nc_in.n >= 0) =>
              /\ nc_pc # "raised"
              /\ nc_calls = 2 => nc_arabic = nc_in.n
        /\ (nc_origin = "numeral" /\ nc_in.s \in LetterRuns) =>
              /\ nc_pc # "raised"
              /\ (nc_calls >= 1 /\ nc_in.s # <<>>) =>
                    nc_arabic = Len(nc_in.s) * 26 - 25
                                + (IndexOf(UpperLetters, nc_in.s[1]) - 1)
              /\ nc_calls >= 1 =>
                    \A e \in LettersExamples : nc_in.s = e[1] => nc_arabic = e[2]
              /\ nc_calls = 2 => nc_numeral = nc_in.s

\* C11 witness: BBBBB was decoded to 106 and 106 encoded back to BBBBB
C11_Witness ==
    /\ nc_kind = "Letters"
    /\ nc_origin = "numeral"
    /\ nc_in.s = <<"B", "B", "B", "B", "B">>
    /\ nc_calls = 2
    /\ nc_arabic = 106
    /\ nc_numeral = nc_in.s

\* the non-empty texts that are not a run of one uppercase letter
NotLetterRuns == {t \in LettersTexts : t \notin LetterRuns}

\* C13: letters_to_arabic returns 0 for the empty text and raises
\* InvalidLettersNumeralError for every non-empty text that is not a run of one
\* uppercase letter (digits, lowercase, mixed letters, a run followed or
\* preceded by another character).
C13_InvalidLettersRejected ==
    (nc_kind = "Letters" /\ nc_origin = "numeral") =>
        /\ (nc_in.s = <<>> /\ nc_calls >= 1) => nc_arabic = 0
        /\ nc_in.s = <<>> => nc_pc # "raised"
        /\ nc_in.s \in NotLetterRuns =>
              \/ nc_pc = "have_numeral" /\ nc_calls = 0
              \/ nc_pc = "raised" /\ nc_err = "InvalidLettersNumeralError"

\* C13 witness: a run followed by a digit was refused
C13_Witness ==
    /\ nc_kind = "Letters"
    /\ nc_origin = "numeral"
    /\ nc_in.s = <<"A", "A", "A", "A", "A", "A", "8">>
    /\ nc_pc = "raised"
    /\ nc_err = "InvalidLettersNumeralError"

(***************************************************************************)
(* Unicode title encoding                                                  *)
(***************************************************************************)
\* the printable ASCII characters, code 32 (space) to 126, in code order (the
\* grave accent, which a string literal cannot hold, is written "U+0060")
AsciiPrintable ==
    <<" ", "!", "\"", "#", "$", "%", "&", "'", "(", ")", "*", "+", ",", "-", ".", "/",
      "0", "1", "2", "3", "4", "5", "6", "7", "8", "9", ":", ";", "<", "=", ">", "?",
      "@", "A", "B", "C", "D", "E", "F", "G", "H", "I", "J", "K", "L", "M", "N", "O",
      "P", "Q", "R", "S", "T", "U", "V", "W", "X", "Y", "Z", "[", "\\", "]", "^", "_",
      "U+0060", "a", "b", "c", "d", "e", "f", "g", "h", "i", "j", "k", "l", "m", "n", "o",
      "p", "q", "r", "s", "t", "u", "v", "w", "x", "y", "z", "{", "|", "}", "~">>

\* string.encode('ascii') succeeds
IsAscii(string) == \A k \in DOMAIN string : string[k] \in Range(AsciiPrintable) \cup {"\n", "\t"}

\* the chain of str.replace calls of the ASCII branch: every special character
\* gets its two-character escape (the backslash is replaced first, so the
\* backslashes the later replacements add are not escaped again)
RECURSIVE PdfmarkEscape(_)
PdfmarkEscape(string) ==
    IF string = <<>> THEN <<>>
    ELSE LET c == Head(string)
             e == CASE c = "\\" -> <<"\\", "\\">>
                    [] c = "("  -> <<"\\", "(">>
                    [] c = ")"  -> <<"\\", ")">>
                    [] c = "\n" -> <<"\\", "n">>
                    [] c = "\t" -> <<"\\", "t">>
                    [] OTHER    -> <<c>>
         IN  e \o PdfmarkEscape(Tail(string))

\* the non-ASCII characters of the model, each named by its code point
NonAsciiChars ==
    << <<"U+03B1", 945>>, <<"U+03B2", 946>>, <<"U+03B3", 947>>, <<"U+1F600", 128512>>,
       <<"U+D800", 55296>> >>

\* ord(c)
CodePoint(c) ==
    IF c \in Range(AsciiPrintable) THEN 31 + IndexOf(AsciiPrintable, c)
    ELSE IF c = "\n" THEN 10
    ELSE IF c = "\t" THEN 9
    ELSE LET k == CHOOSE k \in DOMAIN NonAsciiChars : NonAsciiChars[k][1] = c
         IN  NonAsciiChars[k][2]

\* c.encode('utf-16-be'): two bytes, or a surrogate pair of four bytes
Utf16BeChar(c) ==
    LET cp == CodePoint(c)
    IN  IF cp < 65536 THEN <<cp \div 256, cp % 256>>
        ELSE LET v  == cp - 65536
                 hi == 55296 + (v \div 1024)
                 lo == 56320 + (v % 1024)
             IN  <<hi \div 256, hi % 256, lo \div 256, lo % 256>>

RECURSIVE Utf16Be(_)
Utf16Be(string) ==
    IF string = <<>> THEN <<>> ELSE Utf16BeChar(Head(string)) \o Utf16Be(Tail(string))

HexDigits == <<"0", "1", "2", "3", "4", "5", "6", "7", "8", "9", "A", "B", "C", "D", "E", "F">>

\* ''.join('{:02X}'.format(byte) for byte in b)
RECURSIVE HexBytes(_)
HexBytes(b) ==
    IF b = <<>> THEN <<>>
    ELSE <<HexDigits[(Head(b) \div 16) + 1], HexDigits[(Head(b) % 16) + 1]>> \o HexBytes(Tail(b))

\* _pdfmark_unicode (the same function in pdf_bookmark.py and pdf-merge.py)
pdfmark_unicode(string) ==
    IF IsAscii(string)
    THEN <<"(">> \o PdfmarkEscape(string) \o <<")">>
    ELSE <<"<">> \o HexBytes(<<254, 255>> \o Utf16Be(string)) \o <<">">>

(***************************************************************************)
(* Marking-language emitter: export_pdfmark, generate_pdfmarks             *)
(***************************************************************************)
\* bm.get('collapse'): a record without the key counts as not collapsed
GetCollapse(bm) == IF "collapse" \in DOMAIN bm THEN bm.collapse ELSE FALSE

\* ExportCountFrom with a plausible slip: every deeper entry is counted, not
\* only the entries exactly one level deeper
RECURSIVE ExportCountFrom_AllDeeper(_, _, _)
ExportCountFrom_AllDeeper(bookmarks, level, j) ==
    IF j > Len(bookmarks) THEN 0
    ELSE IF bookmarks[j].level = level THEN 0
    ELSE (IF bookmarks[j].level > level THEN 1 ELSE 0)
         + ExportCountFrom_AllDeeper(bookmarks, level, j + 1)

\* the inner loop of export_pdfmark over bookmarks[j..]: break at an entry of
\* the same level, count the entries one level deeper
RECURSIVE ExportCountFrom(_, _, _)
ExportCountFrom(bookmarks, level, j) ==
    IF j > Len(bookmarks) THEN 0
    ELSE IF bookmarks[j].level = level THEN 0
    ELSE (IF bookmarks[j].level = level + 1 THEN 1 ELSE 0)
         + ExportCountFrom(bookmarks, level, j + 1)

\* count of export_pdfmark for the bookmark at (1-based) position i
ExportCount(bookmarks, i) == ExportCountFrom(bookmarks, bookmarks[i].level, i + 1)

\* the inner loop of generate_pdfmarks (pdf-merge.py) over bookmarks[j..]
RECURSIVE MergeCountFrom(_, _, _)
MergeCountFrom(bookmarks, level, j) ==
    IF j > Len(bookmarks) THEN 0
    ELSE IF bookmarks[j].level = level THEN 0
    ELSE (IF bookmarks[j].level = level + 1 THEN 1 ELSE 0)
         + MergeCountFrom(bookmarks, level, j + 1)

\* count of generate_pdfmarks for the bookmark at (1-based) position i
MergeCount(bookmarks, i) == MergeCountFrom(bookmarks, bookmarks[i].level, i + 1)


\* one iteration of the loop of export_pdfmark: the statement for bookmark i
\*   '[' ['/Count <sign><count> '] '/Title <title> /Page <page> ' '/OUT pdfmark\n'
\* as its attributes in order, each a <<name, value text>> pair, and its operator
ExportStatement(bookmarks, i) ==
    LET bm    == bookmarks[i]
        count == ExportCount(bookmarks, i)
        sign  == IF GetCollapse(bm) THEN <<"-">> ELSE <<>>
    IN  [attrs |-> (IF count # 0 THEN << <<"/Count", sign \o IntToStr(count)>> >> ELSE <<>>)
                   \o << <<"/Title", pdfmark_unicode(bm.title)>>,
                         <<"/Page", IntToStr(bm.page)>> >>,
         op    |-> "/OUT pdfmark"]

\* one iteration of the emitting loop of generate_pdfmarks: the statement
\*   '[ /Title <title> /Page <page> [/Count -<count>] /OUT pdfmark'
MergeStatement(bookmarks, i) ==
    LET bookmark == bookmarks[i]
        count    == MergeCount(bookmarks, i)
    IN  [attrs |-> << <<"/Title", pdfmark_unicode(bookmark.title)>>,
                      <<"/Page", IntToStr(bookmark.page)>> >>
                   \o (IF count # 0 THEN << <<"/Count", <<"-">> \o IntToStr(count)>> >> ELSE <<>>),
         op    |-> "/OUT pdfmark"]

\* the DOCINFO statement of generate_pdfmarks, when a title, author or keywords
\* are given (an empty text counts as not given)
DocinfoStatement(title, author, keywords) ==
    [attrs |-> (IF title # <<>> THEN << <<"/Title", pdfmark_unicode(title)>> >> ELSE <<>>)
               \o (IF author # <<>> THEN << <<"/Author", pdfmark_unicode(author)>> >> ELSE <<>>)
               \o (IF keywords # <<>> THEN << <<"/Keywords", pdfmark_unicode(keywords)>> >>
                   ELSE <<>>),
     op    |-> "/DOCINFO pdfmark"]

\* MergeMark where mark is the bookmark itself, not a copy of it: the
\* addition then also changes the input's record
MergeMark_InPlace(bookmark, startpage) ==
    [mark   |-> [bookmark EXCEPT !.page = @ + startpage],
     source |-> [bookmark EXCEPT !.page = @ + startpage]]

\* mark = dict(bookmark); mark['page'] += startpage: the mark appended, and
\* the input's record after the two statements
MergeMark(bookmark, startpage) ==
    [mark   |-> [bookmark EXCEPT !.page = @ + startpage],
     source |-> bookmark]

\* the merging loop of generate_pdfmarks from input k on: a copy of every
\* bookmark with startpage added to its page; startpage grows by pdf.pages
RECURSIVE MergeBookmarks(_, _, _)
MergeBookmarks(inputs, k, startpage) ==
    IF k > Len(inputs) THEN <<>>
    ELSE [j \in DOMAIN inputs[k].bookmarks |->
             MergeMark(inputs[k].bookmarks[j], startpage).mark]
         \o MergeBookmarks(inputs, k + 1, startpage + inputs[k].pages)

\* the input objects after the merging loop, from input k on
RECURSIVE MergeSources(_, _, _)
MergeSources(inputs, k, startpage) ==
    IF k > Len(inputs) THEN <<>>
    ELSE << [pages     |-> inputs[k].pages,
             bookmarks |-> [j \in DOMAIN inputs[k].bookmarks |->
                               MergeMark(inputs[k].bookmarks[j], startpage).source]] >>
         \o MergeSources(inputs, k + 1, startpage + inputs[k].pages)

(***************************************************************************)
(* The emitter as a state machine: one step per loop iteration             *)
(***************************************************************************)
\* longest bookmark list drawn, and deepest level drawn
MaxBm == 4
MaxLevel == 3
\* largest page count of an input pdf drawn
MaxPages == 2

\* the titles bookmarks are given, by position: plain, with a character that
\* needs an escape, and non-ASCII
MarkTitles == << <<"a">>, <<"(", "b">>, <<"U+03B1", "U+03B2">> >>
MarkTitle(j) == MarkTitles[((j - 1) % Len(MarkTitles)) + 1]

LevelSeqs == UNION {[1..n -> 1..MaxLevel] : n \in 0..MaxBm}

\* the level sequence of the nesting example, and of the doctest of
\* generate_pdfmarks
ExampleLevels == <<1, 2, 3, 3, 2>>
DoctestLevels == <<1, 2, 3, 3, 4, 2>>

\* bookmark records as the importers build them (with a collapse flag) ...
FlaggedBookmarks(levels, flags) ==
    [j \in DOMAIN levels |->
        [level |-> levels[j], title |-> MarkTitle(j), page |-> j, collapse |-> flags[j]]]

\* ... and as pdf-merge.py and hand-built dictionaries have them (without)
PlainBookmarks(levels) ==
    [j \in DOMAIN levels |-> [level |-> levels[j], title |-> MarkTitle(j), page |-> j]]

ExportInputs ==
    {FlaggedBookmarks(l, f) : l \in LevelSeqs \cup {ExampleLevels, DoctestLevels},
                              f \in {[j \in 1..(MaxBm + 2) |-> b] : b \in BOOLEAN}}
    \cup UNION {{FlaggedBookmarks(l, f) : f \in [DOMAIN l -> BOOLEAN]} : l \in LevelSeqs}
    \cup {PlainBookmarks(l) : l \in LevelSeqs}

\* two input pdfs: a level sequence cut in two at any place
MergeInputs ==
    UNION {{ << [pages |-> p, bookmarks |-> PlainBookmarks(SubSeq(l, 1, k))],
                [pages |-> MaxPages,
                 bookmarks |-> PlainBookmarks(SubSeq(l, k + 1, Len(l)))] >>
             : k \in 0..Len(l), p \in 1..MaxPages}
           : l \in LevelSeqs \cup {ExampleLevels, DoctestLevels}}

\* three input pdfs, the first of one page, as in the doctest of
\* generate_pdfmarks
ThreeInputs ==
    { << [pages |-> 1, bookmarks |-> PlainBookmarks(<<1>>)],
         [pages |-> p, bookmarks |-> PlainBookmarks(<<1, 2>>)],
         [pages |-> MaxPages, bookmarks |-> PlainBookmarks(<<1, 2>>)] >> : p \in 1..MaxPages }

NoDocinfo == [title |-> <<>>, author |-> <<>>, keywords |-> <<>>]
SomeDocinfo == [title |-> <<"T">>, author |-> <<>>, keywords |-> <<"k", ",", " ", "w">>]

MarkIdle ==
    /\ mk_fn = "idle"
    /\ mk_pc = "done"
    /\ mk_inputs = <<>>
    /\ mk_docinfo = NoDocinfo
    /\ mk_bookmarks = <<>>
    /\ mk_i = 0
    /\ mk_out = <<>>

MarkStart ==
    \/ /\ mk_fn = "export_pdfmark"
       /\ mk_pc = "loop"
       /\ mk_inputs = <<>>
       /\ mk_docinfo = NoDocinfo
       /\ mk_bookmarks \in ExportInputs
       /\ mk_i = 0
       /\ mk_out = <<>>
    \/ /\ mk_fn = "generate_pdfmarks"
       /\ mk_pc = "start"
       /\ mk_inputs \in MergeInputs \cup ThreeInputs
       /\ mk_docinfo \in {NoDocinfo, SomeDocinfo}
       /\ mk_bookmarks = <<>>
       /\ mk_i = 0
       /\ mk_out = <<>>

\* export_pdfmark: the body of the loop for bookmark i
ExportPdfmarkStep ==
    /\ mk_fn = "export_pdfmark"
    /\ mk_pc = "loop"
    /\ mk_i < Len(mk_bookmarks)
    /\ mk_out' = Append(mk_out, ExportStatement(mk_bookmarks, mk_i + 1))
    /\ mk_i' = mk_i + 1
    /\ UNCHANGED <<mk_fn, mk_pc, mk_inputs, mk_docinfo, mk_bookmarks>>
    /\ UNCHANGED notMk

\* export_pdfmark: return pdfmark
ExportPdfmarkReturn ==
    /\ mk_fn = "export_pdfmark"
    /\ mk_pc = "loop"
    /\ mk_i = Len(mk_bookmarks)
    /\ mk_pc' = "done"
    /\ UNCHANGED <<mk_fn, mk_inputs, mk_docinfo, mk_bookmarks, mk_i, mk_out>>
    /\ UNCHANGED notMk

\* generate_pdfmarks: the DOCINFO statement and the merged bookmark list
GeneratePdfmarksStart ==
    /\ mk_fn = "generate_pdfmarks"
    /\ mk_pc = "start"
    /\ mk_out' = (IF mk_docinfo # NoDocinfo
                  THEN <<DocinfoStatement(mk_docinfo.title, mk_docinfo.author,
                                          mk_docinfo.keywords)>>
                  ELSE <<>>)
    /\ mk_bookmarks' = MergeBookmarks(mk_inputs, 1, 0)
    /\ mk_inputs' = MergeSources(mk_inputs, 1, 0)
    /\ mk_pc' = "loop"
    /\ UNCHANGED <<mk_fn, mk_docinfo, mk_i>>
    /\ UNCHANGED notMk

\* generate_pdfmarks: the body of the emitting loop for bookmark i
GeneratePdfmarksStep ==
    /\ mk_fn = "generate_pdfmarks"
    /\ mk_pc = "loop"
    /\ mk_i < Len(mk_bookmarks)
    /\ mk_out' = Append(mk_out, MergeStatement(mk_bookmarks, mk_i + 1))
    /\ mk_i' = mk_i + 1
    /\ UNCHANGED <<mk_fn, mk_pc, mk_inputs, mk_docinfo, mk_bookmarks>>
    /\ UNCHANGED notMk

\* generate_pdfmarks: return the joined statements
GeneratePdfmarksReturn ==
    /\ mk_fn = "generate_pdfmarks"
    /\ mk_pc = "loop"
    /\ mk_i = Len(mk_bookmarks)
    /\ mk_pc' = "done"
    /\ UNCHANGED <<mk_fn, mk_inputs, mk_docinfo, mk_bookmarks, mk_i, mk_out>>
    /\ UNCHANGED notMk

MarkNext ==
    \/ ExportPdfmarkStep
    \/ ExportPdfmarkReturn
    \/ GeneratePdfmarksStart
    \/ GeneratePdfmarksStep
    \/ GeneratePdfmarksReturn

(***************************************************************************)
(* Properties of the emitter                                               *)
(***************************************************************************)
\* the values a statement carries for the attribute name
AttrValues(st, name) == {st.attrs[k][2] : k \in {k \in DOMAIN st.attrs : st.attrs[k][1] = name}}

\* the '/OUT pdfmark' statements emitted so far, in order
BookmarkStatements == SelectSeq(mk_out, LAMBDA st : st.op = "/OUT pdfmark")

MarkLevels == [j \in DOMAIN mk_bookmarks |-> mk_bookmarks[j].level]

\* Direct-child count of entry i: the later entries one level deeper that come
\* before the first later entry whose level is <= the level of i
DirectChildCount(bookmarks, i) ==
    Cardinality({j \in (i + 1)..Len(bookmarks) :
                    /\ bookmarks[j].level = bookmarks[i].level + 1
                    /\ \A k \in (i + 1)..j : bookmarks[k].level > bookmarks[i].level})

\* the statement st carries the count n, with either sign, or no /Count when n = 0
CarriesCount(st, n) ==
    IF n = 0 THEN AttrValues(st, "/Count") = {}
    ELSE /\ Cardinality(AttrValues(st, "/Count")) = 1
         /\ AttrValues(st, "/Count") \subseteq {IntToStr(n), <<"-">> \o IntToStr(n)}

\* C2: for every bookmark sequence and every position i, the count that
\* export_pdfmark and generate_pdfmarks compute for entry i (the magnitude of
\* the /Count they emit) is the direct-child count of i, the scan stopping at
\* the first later entry whose level is <= the level of i.
C2_CountIsDirectChildCount ==
    \A i \in DOMAIN BookmarkStatements :
        CarriesCount(BookmarkStatements[i], DirectChildCount(mk_bookmarks, i))

\* C3 as stated: for the level sequence [1,2,3,3,2] the count computed for the
\* level-1 entry is 1 and the count for the first level-2 entry is 2.
C3_ExampleCountsAsStated ==
    (MarkLevels = ExampleLevels /\ Len(BookmarkStatements) >= 2)
        => /\ CarriesCount(BookmarkStatements[1], 1)
           /\ CarriesCount(BookmarkStatements[2], 2)

\* C3 amended: for the level sequence [1,2,3,3,2] the count computed for the
\* level-1 entry is 2 (both level-2 entries are its direct children) and the
\* count for the first level-2 entry is 2 (the two level-3 entries).
C3_ExampleCounts ==
    (MarkLevels = ExampleLevels /\ Len(BookmarkStatements) >= 2)
        => /\ CarriesCount(BookmarkStatements[1], 2)
           /\ CarriesCount(BookmarkStatements[2], 2)

\* C3 witness: an emitter has written the statements of the example sequence
C3_Witness ==
    /\ MarkLevels = ExampleLevels
    /\ mk_pc = "done"
    /\ Len(BookmarkStatements) = Len(ExampleLevels)

\* C4: export_pdfmark emits exactly one /OUT statement per bookmark, in bookmark
\* order, and a bookmark with direct-child count n carries '/Count -n' when
\* n > 0 and it is collapsed, '/Count n' when n > 0 and it is not (or has no
\* collapse flag), and no /Count at all when n = 0.
C4_CountAttribute ==
    mk_fn = "export_pdfmark" =>
        /\ Len(BookmarkStatements) = mk_i
        /\ mk_pc = "done" => Len(BookmarkStatements) = Len(mk_bookmarks)
        /\ \A i \in DOMAIN BookmarkStatements :
              LET st == BookmarkStatements[i]
                  bm == mk_bookmarks[i]
                  n  == DirectChildCount(mk_bookmarks, i)
              IN  /\ AttrValues(st, "/Title") = {pdfmark_unicode(bm.title)}
                  /\ AttrValues(st, "/Page") = {IntToStr(bm.page)}
                  /\ AttrValues(st, "/Count") =
                        (IF n = 0 THEN {}
                         ELSE IF GetCollapse(bm) THEN {<<"-">> \o IntToStr(n)}
                         ELSE {IntToStr(n)})

\* the sum of the page counts of inputs 1..k-1
RECURSIVE PagesBefore(_, _)
PagesBefore(inputs, k) ==
    IF k <= 1 THEN 0 ELSE PagesBefore(inputs, k - 1) + inputs[k - 1].pages

\* <<k, j>> for bookmark j of input k, in input order then bookmark order
RECURSIVE InputOrder(_, _)
InputOrder(inputs, k) ==
    IF k > Len(inputs) THEN <<>>
    ELSE [j \in DOMAIN inputs[k].bookmarks |-> <<k, j>>] \o InputOrder(inputs, k + 1)

\* C17, the statements: generate_pdfmarks emits the bookmarks of all inputs in
\* input order then bookmark order, each with its own page plus the page counts
\* of the inputs before its own
C17_PagesEmitted ==
    (mk_fn = "generate_pdfmarks" /\ mk_pc \in {"loop", "done"}) =>
        LET order == InputOrder(mk_inputs, 1)
        IN  /\ Len(mk_bookmarks) = Len(order)
            /\ mk_pc = "done" => Len(BookmarkStatements) = Len(order)
            /\ \A n \in DOMAIN BookmarkStatements :
                  LET k  == order[n][1]
                      bm == mk_inputs[k].bookmarks[order[n][2]]
                  IN  /\ AttrValues(BookmarkStatements[n], "/Title")
                            = {pdfmark_unicode(bm.title)}
                      /\ AttrValues(BookmarkStatements[n], "/Page")
                            = {IntToStr(bm.page + PagesBefore(mk_inputs, k))}

\* C17: generate_pdfmarks emits the bookmarks of all inputs in input order then
\* bookmark order; the page emitted for a bookmark of the k-th input is its own
\* page plus the sum of the page counts of inputs 1..k-1; the bookmark records
\* and page counts of the inputs are left unchanged by the call.
C17_MergedPageOffset ==
    /\ []C17_PagesEmitted
    /\ [][mk_fn = "generate_pdfmarks" => mk_inputs' = mk_inputs]_vars

\* C17 witness: three inputs were merged, and the bookmarks of the third were
\* emitted with both earlier page counts added
C17_Witness ==
    /\ mk_fn = "generate_pdfmarks"
    /\ mk_pc = "done"
    /\ Len(mk_inputs) = 3
    /\ mk_inputs[2].pages = 2
    /\ Len(BookmarkStatements) = 5
    /\ AttrValues(BookmarkStatements[5], "/Page") = {<<"5">>}

(***************************************************************************)
(* Dump parser: import_pdftk                                               *)
(***************************************************************************)
\* the numbering style names of the text notation
ARABIC ==
    <<"A", "r", "a", "b", "i", "c">>
ROMAN ==
    <<"R", "o", "m", "a", "n">>
LETTERS ==
    <<"L", "e", "t", "t", "e", "r", "s">>

\* _NUM_STYLE_MAP, as <<pdftk name, style>> pairs
NUM_STYLE_MAP ==
    << <<<<"D", "e", "c", "i", "m", "a", "l", "A", "r", "a", "b", "i", "c", "N", "u", "m", "e", "r", "a", "l", "s">>,
         ARABIC>>,
       <<<<"U", "p", "p", "e", "r", "c", "a", "s", "e", "R", "o", "m", "a", "n", "N", "u", "m", "e", "r", "a", "l", "s">>,
         ROMAN>>,
       <<<<"L", "o", "w", "e", "r", "c", "a", "s", "e", "R", "o", "m", "a", "n", "N", "u", "m", "e", "r", "a", "l", "s">>,
         ROMAN>>,
       <<<<"U", "p", "p", "e", "r", "c", "a", "s", "e", "L", "e", "t", "t", "e", "r", "s">>,
         LETTERS>>,
       <<<<"L", "o", "w", "e", "r", "c", "a", "s", "e", "L", "e", "t", "t", "e", "r", "s">>,
         LETTERS>> >>

\* _NUM_STYLE_MAP.get(s, 'Arabic')
NumStyleOf(s) ==
    LET hits == {k \in DOMAIN NUM_STYLE_MAP : NUM_STYLE_MAP[k][1] = s}
    IN  IF hits = {} THEN ARABIC ELSE NUM_STYLE_MAP[CHOOSE k \in hits : TRUE][2]

\* _BOOKMARK_DESCRIPTION, in dictionary order: per record kind its key prefix
\* and its fields as <<key suffix, field name>> pairs
BOOKMARK_DESCRIPTION ==
    << [type   |-> "bookmark",
        prefix |-> <<"B", "o", "o", "k", "m", "a", "r", "k">>,
        fields |-> << <<<<"T", "i", "t", "l", "e">>, "title">>,
                      <<<<"L", "e", "v", "e", "l">>, "level">>,
                      <<<<"P", "a", "g", "e", "N", "u", "m", "b", "e", "r">>, "page">> >>],
       [type   |-> "page_label",
        prefix |-> <<"P", "a", "g", "e", "L", "a", "b", "e", "l">>,
        fields |-> << <<<<"N", "e", "w", "I", "n", "d", "e", "x">>, "new_index">>,
                      <<<<"S", "t", "a", "r", "t">>, "num_start">>,
                      <<<<"N", "u", "m", "S", "t", "y", "l", "e">>, "num_style">> >>] >>

\* chr(n), for the characters of the model
Chr(n) ==
    IF n \in 32..126 THEN AsciiPrintable[n - 31]
    ELSE IF n = 10 THEN "\n"
    ELSE IF n = 9 THEN "\t"
    ELSE NonAsciiChars[CHOOSE k \in DOMAIN NonAsciiChars : NonAsciiChars[k][2] = n][1]

\* the length of the run of decimal digits of s that starts at position k
RECURSIVE DigitRun(_, _)
DigitRun(s, k) ==
    IF k <= Len(s) /\ s[k] \in Range(Digits) THEN 1 + DigitRun(s, k + 1) ELSE 0

\* _unicode_replace: every '&#<digits>;' becomes the character of that code,
\* leftmost match first; a text without a match is returned as it is
RECURSIVE UnicodeReplace(_)
UnicodeReplace(s) ==
    IF s = <<>> THEN <<>>
    ELSE LET run == DigitRun(s, 3)
         IN  IF /\ StartsWith(s, <<"&", "#">>)
                /\ run > 0
                /\ Len(s) >= 3 + run
                /\ s[3 + run] = ";"
             THEN <<Chr(DigitsValue(SubSeq(s, 3, 2 + run)))>> \o UnicodeReplace(From(s, 4 + run))
             ELSE <<Head(s)>> \o UnicodeReplace(Tail(s))

\* the handler of a field applied to the value text: [ok, val]; ok is FALSE
\* where int raises ValueError
FieldHandler(field, value) ==
    CASE field = "title"     -> [ok |-> TRUE, val |-> UnicodeReplace(value)]
      [] field = "num_style" -> [ok |-> TRUE, val |-> NumStyleOf(value)]
      [] OTHER               -> StrToInt(value)

\* dict with d[k] = v set
Put(d, k, v) == [f \in DOMAIN d \cup {k} |-> IF f = k THEN v ELSE d[f]]

\* the empty dict
EmptyDict == <<>>

\* the names of the fields of a record kind
FieldNames(detail) == {detail.fields[j][2] : j \in DOMAIN detail.fields}

\* PdftkKind with a plausible slip: the accumulator is not reset after its
\* record is appended, so the next line of the kind completes a record again
PdftkKind_NoReset(st, detail, key, value, collapse_level) ==
    IF st.err # "none" \/ ~StartsWith(key, detail.prefix) THEN st
    ELSE LET suffix == From(key, Len(detail.prefix) + 1)
             hits   == {j \in DOMAIN detail.fields : detail.fields[j][1] = suffix}
         IN  IF hits = {} THEN st
             ELSE LET k   == detail.fields[CHOOSE j \in hits : TRUE][2]
                      h   == FieldHandler(k, value)
                      acc == Put(st.info[detail.type], k, h.val)
                  IN  IF ~h.ok THEN [st EXCEPT !.err = "ValueError"]
                      ELSE IF ~(FieldNames(detail) \subseteq DOMAIN acc)
                      THEN [st EXCEPT !.info[detail.type] = acc]
                      ELSE IF collapse_level # 0 /\ "level" \notin DOMAIN acc
                      THEN [st EXCEPT !.info[detail.type] = acc, !.err = "KeyError"]
                      ELSE LET rec == Put(acc, "collapse",
                                          collapse_level # 0 /\ acc.level >= collapse_level)
                           IN  [st EXCEPT !.out[detail.type] = Append(@, rec),
                                          !.info[detail.type] = acc]

\* the body of the loop over _BOOKMARK_DESCRIPTION for one record kind, on the
\* state st = [info, out, err] of the parser
PdftkKind(st, detail, key, value, collapse_level) ==
    IF st.err # "none" \/ ~StartsWith(key, detail.prefix) THEN st
    ELSE LET suffix == From(key, Len(detail.prefix) + 1)
             hits   == {j \in DOMAIN detail.fields : detail.fields[j][1] = suffix}
         IN  IF hits = {} THEN st
             ELSE LET k   == detail.fields[CHOOSE j \in hits : TRUE][2]
                      h   == FieldHandler(k, value)
                      acc == Put(st.info[detail.type], k, h.val)
                  IN  IF ~h.ok THEN [st EXCEPT !.err = "ValueError"]
                      ELSE IF ~(FieldNames(detail) \subseteq DOMAIN acc)
                      THEN [st EXCEPT !.info[detail.type] = acc]
                      \* bookmark_info[bm_type]['level'] is read only when
                      \* collapse_level != 0; a kind without that field has no such key
                      ELSE IF collapse_level # 0 /\ "level" \notin DOMAIN acc
                      THEN [st EXCEPT !.info[detail.type] = acc, !.err = "KeyError"]
                      ELSE LET rec == Put(acc, "collapse",
                                          collapse_level # 0 /\ acc.level >= collapse_level)
                           IN  [st EXCEPT !.out[detail.type] = Append(@, rec),
                                          !.info[detail.type] = EmptyDict]

\* the loop over _BOOKMARK_DESCRIPTION, from kind j on
RECURSIVE PdftkKinds(_, _, _, _, _)
PdftkKinds(st, j, key, value, collapse_level) ==
    IF j > Len(BOOKMARK_DESCRIPTION) THEN st
    ELSE PdftkKinds(PdftkKind(st, BOOKMARK_DESCRIPTION[j], key, value, collapse_level),
                    j + 1, key, value, collapse_level)

\* the body of the loop over the dump's lines
PdftkLine(st, line, collapse_level) ==
    LET kv == SplitOnce(line, <<":", " ">>)
    IN  IF ~kv.ok THEN st
        ELSE PdftkKinds(st, 1, kv.head, kv.tail, collapse_level)

\* most records a dump drawn line by line is followed to
MaxDumpRecords == 2

\* the lines a dump is drawn from
DumpLines ==
    { <<"B", "o", "o", "k", "m", "a", "r", "k", "T", "i", "t", "l", "e", ":", " ", "C", "h", " ", "1">>,
      <<"B", "o", "o", "k", "m", "a", "r", "k", "T", "i", "t", "l", "e", ":", " ", "&", "#", "9", "4", "5", ";">>,
      <<"B", "o", "o", "k", "m", "a", "r", "k", "L", "e", "v", "e", "l", ":", " ", "1">>,
      <<"B", "o", "o", "k", "m", "a", "r", "k", "L", "e", "v", "e", "l", ":", " ", "2">>,
      <<"B", "o", "o", "k", "m", "a", "r", "k", "L", "e", "v", "e", "l", ":", " ", "x">>,
      <<"B", "o", "o", "k", "m", "a", "r", "k", "P", "a", "g", "e", "N", "u", "m", "b", "e", "r", ":", " ", "1">>,
      <<"P", "a", "g", "e", "L", "a", "b", "e", "l", "N", "e", "w", "I", "n", "d", "e", "x", ":", " ", "1">>,
      <<"P", "a", "g", "e", "L", "a", "b", "e", "l", "S", "t", "a", "r", "t", ":", " ", "5">>,
      <<"P", "a", "g", "e", "L", "a", "b", "e", "l", "N", "u", "m", "S", "t", "y", "l", "e", ":", " ", "L", "o", "w", "e", "r", "c", "a", "s", "e", "R", "o", "m", "a", "n", "N", "u", "m", "e", "r", "a", "l", "s">>,
      <<"P", "a", "g", "e", "L", "a", "b", "e", "l", "P", "r", "e", "f", "i", "x", ":", " ", "x">>,
      <<"N", "u", "m", "b", "e", "r", "O", "f", "P", "a", "g", "e", "s", ":", " ", "1", "2", "3">>,
      <<"B", "o", "o", "k", "m", "a", "r", "k", "B", "e", "g", "i", "n">> }

\* the end-to-end example: a dump with the page count and one bookmark triple
ExampleDump ==
    << <<"I", "n", "f", "o", "B", "e", "g", "i", "n">>,
       <<"I", "n", "f", "o", "K", "e", "y", ":", " ", "C", "r", "e", "a", "t", "i", "o", "n", "D", "a", "t", "e">>,
       <<"N", "u", "m", "b", "e", "r", "O", "f", "P", "a", "g", "e", "s", ":", " ", "1", "2", "3">>,
       <<"B", "o", "o", "k", "m", "a", "r", "k", "B", "e", "g", "i", "n">>,
       <<"B", "o", "o", "k", "m", "a", "r", "k", "T", "i", "t", "l", "e", ":", " ", "C", "h", "a", "p", "t", "e", "r", " ", "1">>,
       <<"B", "o", "o", "k", "m", "a", "r", "k", "L", "e", "v", "e", "l", ":", " ", "1">>,
       <<"B", "o", "o", "k", "m", "a", "r", "k", "P", "a", "g", "e", "N", "u", "m", "b", "e", "r", ":", " ", "1">> >>

\* the collapse_level arguments drawn
CollapseLevels == 0..MaxLevel

PdftkIdle ==
    /\ pk_collapse_level = 0
    /\ pk_text = <<>>
    /\ pk_n = 0
    /\ pk_pc = "returned"
    /\ pk_line = <<>>
    /\ pk_info = [bookmark |-> EmptyDict, page_label |-> EmptyDict]
    /\ pk_out = [bookmark |-> <<>>, page_label |-> <<>>]
    /\ pk_err = "none"

PdftkStart ==
    /\ pk_collapse_level \in CollapseLevels
    /\ pk_text \in {<<>>, ExampleDump}
    /\ pk_n = 0
    /\ pk_pc = "loop"
    /\ pk_line = <<>>
    /\ pk_info = [bookmark |-> EmptyDict, page_label |-> EmptyDict]
    /\ pk_out = [bookmark |-> <<>>, page_label |-> <<>>]
    /\ pk_err = "none"

\* the lines the dump can continue with
PdftkNextLines ==
    IF pk_text = <<>>
    THEN (IF Len(pk_out.bookmark) + Len(pk_out.page_label) < MaxDumpRecords
          THEN DumpLines ELSE {})
    ELSE {pk_text[k] : k \in {pk_n + 1} \cap DOMAIN pk_text}

\* import_pdftk: one iteration of the loop over data.splitlines()
ImportPdftkLine ==
    /\ pk_pc = "loop"
    /\ \E line \in PdftkNextLines :
          \E st \in {PdftkLine([info |-> pk_info, out |-> pk_out, err |-> "none"],
                               line, pk_collapse_level)} :
              /\ pk_line' = line
              /\ pk_info' = st.info
              /\ pk_out' = st.out
              /\ pk_err' = st.err
              /\ pk_pc' = IF st.err = "none" THEN "loop" ELSE "raised"
    /\ pk_n' = IF pk_text = <<>> THEN 0 ELSE pk_n + 1
    /\ UNCHANGED <<pk_collapse_level, pk_text>>
    /\ UNCHANGED notPk

\* import_pdftk: the dump has no more lines; return bookmarks
ImportPdftkReturn ==
    /\ pk_pc = "loop"
    /\ pk_text = <<>> \/ pk_n = Len(pk_text)
    /\ pk_pc' = "returned"
    /\ UNCHANGED <<pk_collapse_level, pk_text, pk_n, pk_line, pk_info, pk_out, pk_err>>
    /\ UNCHANGED notPk

PdftkNext ==
    \/ ImportPdftkLine
    \/ ImportPdftkReturn

(***************************************************************************)
(* Properties of the dump parser                                           *)
(***************************************************************************)
\* the record kinds and, for each, the other one
DumpKinds == {"bookmark", "page_label"}
OtherKind(kind) == IF kind = "bookmark" THEN "page_label" ELSE "bookmark"
KindDetail(kind) ==
    BOOKMARK_DESCRIPTION[CHOOSE j \in DOMAIN BOOKMARK_DESCRIPTION :
                            BOOKMARK_DESCRIPTION[j].type = kind]

\* 'Key: ' for field j of a record kind, as it starts a dump line
LineStart(kind, j) ==
    KindDetail(kind).prefix \o KindDetail(kind).fields[j][1] \o <<":", " ">>

\* the <<kind, j>> pairs whose 'Key: ' the line starts with: none for a line
\* without the separator or with an unrecognised key
LineFields(line) ==
    {kj \in DumpKinds \X (1..3) :
        /\ kj[2] \in DOMAIN KindDetail(kj[1]).fields
        /\ StartsWith(line, LineStart(kj[1], kj[2]))}

\* the accumulator of a kind holds every field of the kind
Complete(kind, acc) == FieldNames(KindDetail(kind)) \subseteq DOMAIN acc

\* what the claim says one line does to the accumulators and the output
C6_LineEffect(line) ==
    IF LineFields(line) = {}
    THEN pk_info' = pk_info /\ pk_out' = pk_out
    ELSE \A kj \in LineFields(line) :
            LET kind  == kj[1]
                field == KindDetail(kind).fields[kj[2]][2]
                text  == From(line, Len(LineStart(kind, kj[2])) + 1)
                acc   == Put(pk_info[kind], field, FieldHandler(field, text).val)
            IN  /\ pk_info'[OtherKind(kind)] = pk_info[OtherKind(kind)]
                /\ pk_out'[OtherKind(kind)] = pk_out[OtherKind(kind)]
                /\ IF Complete(kind, acc)
                   THEN /\ Len(pk_out'[kind]) = Len(pk_out[kind]) + 1
                        /\ SubSeq(pk_out'[kind], 1, Len(pk_out[kind])) = pk_out[kind]
                        /\ \A f \in FieldNames(KindDetail(kind)) :
                              pk_out'[kind][Len(pk_out'[kind])][f] = acc[f]
                        /\ pk_info'[kind] = EmptyDict
                   ELSE /\ pk_out'[kind] = pk_out[kind]
                        /\ pk_info'[kind] = acc

ChapterOne ==
    <<"C", "h", "a", "p", "t", "e", "r", " ", "1">>

\* C6, between lines: no accumulator holds all the fields of its kind, and the
\* example dump (the triple ('Chapter 1', 1, 1) among unrelated keys) yields
\* exactly one bookmark, with level 1, page 1 and title 'Chapter 1'
C6_BetweenLines ==
    pk_collapse_level = 0 =>
        /\ \A kind \in DumpKinds : ~Complete(kind, pk_info[kind])
        /\ (pk_text = ExampleDump /\ pk_pc = "returned") =>
              /\ Len(pk_out.bookmark) = 1
              /\ pk_out.bookmark[1].level = 1
              /\ pk_out.bookmark[1].page = 1
              /\ pk_out.bookmark[1].title = ChapterOne

\* C6: while import_pdftk (collapse_level = 0) processes a dump, a record is
\* appended exactly by the line that completes the accumulator of its kind,
\* with the field values last seen and after the records completed before, and
\* the accumulator is empty afterwards; a line of one kind leaves the other
\* kind's accumulator and output unchanged; a line without ': ' or with an
\* unrecognised key changes nothing; no accumulator is complete between lines;
\* the example dump yields exactly one bookmark (1, 1, 'Chapter 1').
C6_Accumulator ==
    /\ []C6_BetweenLines
    /\ [][(pk_collapse_level = 0 /\ pk_pc = "loop" /\ pk_pc' = "loop")
            => C6_LineEffect(pk_line')]_vars

\* C6 witness: two bookmark records with different titles were completed, one
\* after the other, and the parser has returned them
C6_Witness ==
    /\ pk_collapse_level = 0
    /\ pk_pc = "returned"
    /\ Len(pk_out.bookmark) = 2
    /\ pk_out.bookmark[1].title # pk_out.bookmark[2].title
    /\ pk_out.bookmark[1].level # pk_out.bookmark[2].level

\* C14: the collapse level given to an importer is the minimum level to be
\* collapsed, and 0 collapses all: with L > 0 exactly the bookmarks of level
\* >= L are returned with collapse = true, with 0 every bookmark is.
C14_CollapseLevelOption ==
    (pk_pc = "returned" /\ pk_err = "none") =>
        \A k \in DOMAIN pk_out.bookmark :
            pk_out.bookmark[k].collapse =
                (pk_collapse_level = 0 \/ pk_out.bookmark[k].level >= pk_collapse_level)

\* C19: for every dump and every collapse_level >= 0, import_pdftk ends without
\* an error that depends on collapse_level (the only failure is a field value
\* int() refuses) and returns one page-label record per completed
\* NewIndex/Start/NumStyle group, with the three values of the group.
C19_CollapseLevelIndependence ==
    /\ pk_pc = "raised" => pk_err = "ValueError"
    /\ \A k \in DOMAIN pk_out.page_label :
          {"new_index", "num_start", "num_style"} \subseteq DOMAIN pk_out.page_label[k]

(***************************************************************************)
(* Outline text: export_bmk                                                *)
(***************************************************************************)
\* _CONTENT_MINIMUM_DOTS
CONTENT_MINIMUM_DOTS == 4

\* the number of dots export_bmk puts between title and page
ExportDots == 16

BmkHeader ==
    <<"!", "!", "!", " ", "#", " ", "G", "e", "n", "e", "r", "a", "t", "e", "d", " ",
      "b", "m", "k", " ", "f", "i", "l", "e", "\n">>

\* '!!! {} = {}\n'.format(k, v) for texts k and v
Directive(k, v) == <<"!", "!", "!", " ">> \o k \o <<" ", "=", " ">> \o v \o <<"\n">>

NEW_INDEX ==
    <<"n", "e", "w", "_", "i", "n", "d", "e", "x">>
NUM_START ==
    <<"n", "u", "m", "_", "s", "t", "a", "r", "t">>
NUM_STYLE ==
    <<"n", "u", "m", "_", "s", "t", "y", "l", "e">>
COLLAPSE_LEVEL ==
    <<"c", "o", "l", "l", "a", "p", "s", "e", "_", "l", "e", "v", "e", "l">>
LEVEL_INDENT ==
    <<"l", "e", "v", "e", "l", "_", "i", "n", "d", "e", "n", "t">>

\* the index of the last region with bm['page'] >= pl['new_index'], counted
\* from 1; 0 when there is none (the code counts from 0 and uses -1)
PageLabelIndex(bm, page_labels) ==
    LET hits == {i \in DOMAIN page_labels : bm.page >= page_labels[i].new_index}
    IN  IF hits = {} THEN 0 ELSE CHOOSE i \in hits : \A h \in hits : h <= i

\* the page text of a bookmark under region pl (pl_index = 0: no region)
ExportPage(bm, page_labels, pl_index) ==
    IF pl_index = 0 THEN [err |-> "none", val |-> IntToStr(bm.page)]
    ELSE LET pl   == page_labels[pl_index]
             page == bm.page - pl.new_index + pl.num_start
         IN  IF pl.num_style = ROMAN THEN arabic_to_roman(page)
             ELSE IF pl.num_style = LETTERS THEN arabic_to_letters(page)
             ELSE [err |-> "none", val |-> IntToStr(page)]

\* the loop of export_bmk from bookmark i on, with current_page_label_index
\* (counted from 1, 0 for the initial -1) and current_collapse_level
RECURSIVE ExportBmkFrom(_, _, _, _)
ExportBmkFrom(bookmarks, i, current_page_label_index, current_collapse_level) ==
    IF i > Len(bookmarks.bookmark) THEN [err |-> "none", val |-> <<>>]
    ELSE LET bm          == bookmarks.bookmark[i]
             page_labels == bookmarks.page_label
             pli         == PageLabelIndex(bm, page_labels)
             switch      == pli > 0 /\ pli # current_page_label_index
             directives  ==
                 IF switch
                 THEN <<"\n">>
                      \o Directive(NEW_INDEX, IntToStr(page_labels[pli].new_index))
                      \o Directive(NUM_START, IntToStr(page_labels[pli].num_start))
                      \o Directive(NUM_STYLE, page_labels[pli].num_style)
                      \o <<"\n">>
                 ELSE <<>>
             page        == ExportPage(bm, page_labels, pli)
             flip        == bm.collapse = (current_collapse_level = 0
                                           \/ current_collapse_level > bm.level)
             level_now   == IF flip THEN (IF bm.collapse THEN bm.level ELSE 0)
                            ELSE current_collapse_level
             collapse    == IF flip THEN Directive(COLLAPSE_LEVEL, IntToStr(level_now))
                            ELSE <<>>
             line        == Repeat(<<" ", " ">>, bm.level - 1) \o bm.title
                            \o Repeat(<<".">>, ExportDots) \o page.val \o <<"\n">>
             rest        == ExportBmkFrom(bookmarks, i + 1,
                                          IF switch THEN pli ELSE current_page_label_index,
                                          level_now)
         IN  IF page.err # "none" THEN [err |-> page.err, val |-> <<>>]
             ELSE IF rest.err # "none" THEN rest
             ELSE [err |-> "none", val |-> directives \o collapse \o line \o rest.val]

\* export_bmk
export_bmk(bookmarks) ==
    LET body == ExportBmkFrom(bookmarks, 1, 0, 0)
    IN  IF body.err # "none" THEN body
        ELSE [err |-> "none", val |-> BmkHeader \o body.val]

(***************************************************************************)
(* Outline text: import_bmk                                                *)
(***************************************************************************)
\* the line boundaries of str.splitlines among the characters of the model
LineBreaks == {"\n", "\r", "\f"}

\* str.splitlines: the lines of a text, without their line breaks; '\r\n' is
\* one break, and a break at the end of the text starts no further line
RECURSIVE SplitLines(_)
SplitLines(text) ==
    IF text = <<>> THEN <<>>
    ELSE LET hits == {k \in DOMAIN text : text[k] \in LineBreaks}
         IN  IF hits = {} THEN <<text>>
             ELSE LET k    == CHOOSE h \in hits : \A g \in hits : h <= g
                      skip == IF text[k] = "\r" /\ k < Len(text) /\ text[k + 1] = "\n"
                              THEN 2 ELSE 1
                  IN  <<SubSeq(text, 1, k - 1)>> \o SplitLines(From(text, k + skip))

\* a // b and a % b of Python, for b # 0: the quotient is rounded down and
\* the remainder has the sign of b
PyFloorDiv(a, b) == IF b > 0 THEN a \div b ELSE (0 - a) \div (0 - b)
PyMod(a, b) == a - b * PyFloorDiv(a, b)

\* _parse_bookmark_command: [err, k, v]
parse_bookmark_command(line) ==
    LET body == From(line, 4)
        kv   == SplitOnce(body, <<"=">>)
    IN  IF StartsWith(LStrip(body), <<"#">>) THEN [err |-> "none", k |-> <<>>, v |-> <<>>]
        ELSE IF ~kv.ok THEN [err |-> "InvalidBookmarkSyntaxError", k |-> <<>>, v |-> <<>>]
        ELSE [err |-> "none", k |-> Strip(kv.head), v |-> Strip(kv.tail)]

\* the number of ' ' a line starts with
RECURSIVE SpaceCount(_)
SpaceCount(line) ==
    IF line # <<>> /\ Head(line) = " " THEN 1 + SpaceCount(Tail(line)) ELSE 0

\* _parse_level: [err, level, rest]
parse_level(line, level_indent) ==
    LET space_count == SpaceCount(line)
    IN  IF level_indent = 0
        THEN [err |-> "ZeroDivisionError", level |-> 0, rest |-> <<>>]
        ELSE IF PyMod(space_count, level_indent) # 0
        THEN [err |-> "InvalidBookmarkSyntaxError", level |-> 0, rest |-> <<>>]
        ELSE [err |-> "none",
              level |-> PyFloorDiv(space_count, level_indent) + 1,
              rest |-> From(line, space_count + 1)]

\* the number of '.' a text starts with
RECURSIVE DotCount(_)
DotCount(s) == IF s # <<>> /\ Head(s) = "." THEN 1 + DotCount(Tail(s)) ELSE 0

\* _split_title_page: [err, title, page]
split_title_page(title_page) ==
    LET start_pos == Find(title_page, Repeat(<<".">>, CONTENT_MINIMUM_DOTS))
        end_pos   == start_pos + DotCount(From(title_page, start_pos))
    IN  IF start_pos = 0
        THEN [err |-> "InvalidBookmarkSyntaxError", title |-> <<>>, page |-> <<>>]
        ELSE [err |-> "none",
              title |-> Strip(SubSeq(title_page, 1, start_pos - 1)),
              page |-> Strip(From(title_page, end_pos))]

\* page_config at the start of import_bmk; the keys the code does not name
\* are kept in extra
PageConfig(collapse_level) ==
    [new_index |-> 1, num_start |-> 1, num_style |-> ARABIC,
     collapse_level |-> collapse_level, level_indent |-> 2, extra |-> EmptyDict]

\* page_config[k] = n for one of the integer keys
SetInt(cfg, k, n) ==
    IF k = NUM_START THEN [cfg EXCEPT !.num_start = n]
    ELSE IF k = COLLAPSE_LEVEL THEN [cfg EXCEPT !.collapse_level = n]
    ELSE [cfg EXCEPT !.level_indent = n]

\* import_bmk on a directive line, on the state st = [cfg, saved, out, err]
BmkDirective(st, line) ==
    LET cmd == parse_bookmark_command(line)
        n   == StrToInt(cmd.v)
    IN  IF cmd.err # "none" THEN [st EXCEPT !.err = cmd.err]
        ELSE IF cmd.k = <<>> THEN st
        ELSE IF cmd.k = NEW_INDEX
        THEN IF ~n.ok THEN [st EXCEPT !.saved = FALSE, !.err = "ValueError"]
             ELSE [st EXCEPT !.saved = FALSE,
                             !.cfg = [@ EXCEPT !.new_index = n.val, !.num_start = 1,
                                               !.num_style = ARABIC]]
        ELSE IF cmd.k \in {NUM_START, COLLAPSE_LEVEL, LEVEL_INDENT}
        THEN IF ~n.ok THEN [st EXCEPT !.err = "ValueError"]
             ELSE [st EXCEPT !.cfg = SetInt(@, cmd.k, n.val)]
        ELSE IF cmd.k = NUM_STYLE THEN [st EXCEPT !.cfg.num_style = cmd.v]
        ELSE [st EXCEPT !.cfg.extra = Put(@, cmd.k, cmd.v)]

\* the page token decoded in the numbering style of page_config: the codec's
\* errors are ValueErrors, which import_bmk turns into its syntax error
DecodePage(num_style, page) ==
    LET r == IF num_style = ROMAN THEN roman_to_arabic(Upper(page))
             ELSE IF num_style = LETTERS THEN letters_to_arabic(Upper(page))
             ELSE LET n == StrToInt(page)
                  IN  [err |-> IF n.ok THEN "none" ELSE "ValueError", val |-> n.val]
    IN  IF r.err \in {"ValueError", "InvalidRomanNumeralError", "InvalidLettersNumeralError"}
        THEN [err |-> "InvalidBookmarkSyntaxError", val |-> 0]
        ELSE r

\* import_bmk on a bookmark line
BmkBookmark(st, line) ==
    LET cfg    == st.cfg
        labels == IF st.saved THEN st.out.page_label
                  ELSE Append(st.out.page_label,
                              [new_index |-> cfg.new_index, num_start |-> cfg.num_start,
                               num_style |-> cfg.num_style])
        st1    == [st EXCEPT !.saved = TRUE, !.out.page_label = labels]
        lv     == parse_level(line, cfg.level_indent)
        tp     == split_title_page(lv.rest)
        dec    == DecodePage(cfg.num_style, tp.page)
        page   == dec.val - cfg.num_start + cfg.new_index
    IN  IF lv.err # "none" THEN [st1 EXCEPT !.err = lv.err]
        ELSE IF tp.err # "none" THEN [st1 EXCEPT !.err = tp.err]
        ELSE IF dec.err # "none" THEN [st1 EXCEPT !.err = dec.err]
        ELSE [st1 EXCEPT !.out.bookmark =
                 Append(@, [level |-> lv.level, title |-> tp.title, page |-> page,
                            collapse |-> cfg.collapse_level # 0
                                         /\ lv.level >= cfg.collapse_level])]

\* the body of the loop of import_bmk over the lines
BmkLine(st, line) ==
    IF Strip(line) = <<>> THEN st
    ELSE IF StartsWith(line, <<"!", "!", "!">>) THEN BmkDirective(st, line)
    ELSE BmkBookmark(st, line)

(***************************************************************************)
(* The outline text codec as a state machine: a bookmark set is exported   *)
(* and the text imported, or any text is imported line by line             *)
(***************************************************************************)
\* most bookmarks of an exported set, and most lines of an imported text
MaxTripBm == 2
MaxBmkLines == 4

\* the exported sets: titles and absolute pages of the bookmarks
TripTitles == {<<"a">>, <<"a", ".">>}
TripPages == {1, 2}
NumStyles == {ARABIC, ROMAN, LETTERS}

\* level sequences of the exported sets: levels from 1 up, in any order
TripLevelSeqs == UNION {[1..n -> 1..n] : n \in 1..MaxTripBm}

BmFields == [title : TripTitles, page : TripPages, collapse : BOOLEAN]

\* a bookmark sequence of the family, its levels filled in
WithLevels(bms, ls) ==
    [k \in DOMAIN bms |-> [level |-> ls[k], title |-> bms[k].title,
                           page |-> bms[k].page, collapse |-> bms[k].collapse]]

\* the page labels of the exported sets: no region, or one region
TripRegions ==
    { <<>>,
      <<[new_index |-> 1, num_start |-> 1, num_style |-> ARABIC]>>,
      <<[new_index |-> 2, num_start |-> 5, num_style |-> ARABIC]>>,
      <<[new_index |-> 2, num_start |-> 1, num_style |-> ROMAN]>>,
      <<[new_index |-> 2, num_start |-> 3, num_style |-> LETTERS]>> }

TripSets ==
    UNION {{[bookmark |-> WithLevels(bms, ls), page_label |-> pls] :
               bms \in [DOMAIN ls -> BmFields], pls \in TripRegions}
              : ls \in TripLevelSeqs}

\* the lines an imported text is made of
BmkLines ==
    { <<"!", "!", "!", " ", "n", "e", "w", "_", "i", "n", "d", "e", "x", " ", "=", " ", "3">>,
      <<"!", "!", "!", " ", "n", "e", "w", "_", "i", "n", "d", "e", "x", " ", "=", " ", "2">>,
      <<"!", "!", "!", " ", "n", "e", "w", "_", "i", "n", "d", "e", "x", " ", "=", " ", "a", "b", "c">>,
      <<"!", "!", "!", " ", "n", "u", "m", "_", "s", "t", "a", "r", "t", " ", "=", " ", "5">>,
      <<"!", "!", "!", " ", "n", "u", "m", "_", "s", "t", "y", "l", "e", " ", "=", " ", "R", "o", "m", "a", "n">>,
      <<"!", "!", "!", " ", "n", "u", "m", "_", "s", "t", "y", "l", "e", " ", "=", " ", "F", "o", "o">>,
      <<"!", "!", "!", " ", "l", "e", "v", "e", "l", "_", "i", "n", "d", "e", "n", "t", " ", "=", " ", "0">>,
      <<"!", "!", "!", " ", "l", "e", "v", "e", "l", "_", "i", "n", "d", "e", "n", "t", " ", "=", " ", "-", "2">>,
      <<"!", "!", "!", " ", "c", "o", "l", "l", "a", "p", "s", "e", "_", "l", "e", "v", "e", "l", " ", "=", " ", "2">>,
      <<"!", "!", "!", " ", "#", " ", "n", "o", "t", "e">>,
      <<"!", "!", "!", " ", "x">>,
      <<"a", ".", ".", ".", ".", "1">>,
      <<" ", " ", "b", ".", ".", ".", ".", "2">>,
      <<" ", "c", ".", ".", ".", ".", "1">>,
      <<"d", ".", ".", ".", "1">>,
      <<"e", ".", ".", ".", ".", "i", "v">>,
      <<>>,
      <<" ", " ", " ", " ", "f", ".", ".", ".", ".", "7">> }

\* the collapse_level arguments import_bmk is given
BmkCollapseLevels == {0, 2}

NoSet == [bookmark |-> <<>>, page_label |-> <<>>]

BmkIdle ==
    /\ bk_mode = "idle"
    /\ bk_B = NoSet
    /\ bk_text = <<>>
    /\ bk_lines = <<>>
    /\ bk_collapse_level = 0
    /\ bk_n = 0
    /\ bk_pc = "returned"
    /\ bk_line = <<>>
    /\ bk_cfg = PageConfig(0)
    /\ bk_saved = FALSE
    /\ bk_out = NoSet
    /\ bk_err = "none"

\* a bookmark set is about to be exported, or import_bmk is entered on a text
BmkStart ==
    /\ \/ bk_mode = "trip" /\ bk_B \in TripSets /\ bk_pc = "export"
          /\ bk_collapse_level = 0
       \/ bk_mode = "text" /\ bk_B = NoSet /\ bk_pc = "loop"
          /\ bk_collapse_level \in BmkCollapseLevels
    /\ bk_text = <<>>
    /\ bk_lines = <<>>
    /\ bk_n = 0
    /\ bk_line = <<>>
    /\ bk_cfg = PageConfig(bk_collapse_level)
    /\ bk_saved = FALSE
    /\ bk_out = NoSet
    /\ bk_err = "none"

\* export_bmk(B), and import_bmk entered on the text it returned
ExportBmk ==
    /\ bk_pc = "export"
    /\ \E r \in {export_bmk(bk_B)} :
          /\ bk_err' = r.err
          /\ bk_text' = r.val
          /\ bk_lines' = SplitLines(r.val)
          /\ bk_pc' = IF r.err = "none" THEN "loop" ELSE "raised"
    /\ UNCHANGED <<bk_mode, bk_B, bk_collapse_level, bk_n, bk_line, bk_cfg, bk_saved,
                   bk_out>>
    /\ UNCHANGED notBk

\* the lines the text can continue with
BmkNextLines ==
    IF bk_mode = "text"
    THEN (IF bk_n < MaxBmkLines THEN BmkLines ELSE {})
    ELSE {bk_lines[k] : k \in {bk_n + 1} \cap DOMAIN bk_lines}

\* import_bmk: one iteration of the loop over bookmark_data.splitlines()
ImportBmkLine ==
    /\ bk_pc = "loop"
    /\ \E line \in BmkNextLines :
          \E st \in {BmkLine([cfg |-> bk_cfg, saved |-> bk_saved, out |-> bk_out,
                              err |-> "none"], line)} :
              /\ bk_line' = line
              /\ bk_cfg' = st.cfg
              /\ bk_saved' = st.saved
              /\ bk_out' = st.out
              /\ bk_err' = st.err
              /\ bk_pc' = IF st.err = "none" THEN "loop" ELSE "raised"
    /\ bk_n' = bk_n + 1
    /\ UNCHANGED <<bk_mode, bk_B, bk_text, bk_lines, bk_collapse_level>>
    /\ UNCHANGED notBk

\* import_bmk: the text has no more lines; return bookmarks
ImportBmkReturn ==
    /\ bk_pc = "loop"
    /\ bk_mode = "text" \/ bk_n = Len(bk_lines)
    /\ bk_pc' = "returned"
    /\ UNCHANGED <<bk_mode, bk_B, bk_text, bk_lines, bk_collapse_level, bk_n, bk_line,
                   bk_cfg, bk_saved, bk_out, bk_err>>
    /\ UNCHANGED notBk

BmkNext ==
    \/ ExportBmk
    \/ ImportBmkLine
    \/ ImportBmkReturn

(***************************************************************************)
(* Properties of the outline text codec                                    *)
(***************************************************************************)
\* a text with a run of CONTENT_MINIMUM_DOTS or more '.'
HasDotRun(t) == Find(t, Repeat(<<".">>, CONTENT_MINIMUM_DOTS)) # 0

\* the bookmark sets the round trip is stated for: levels from 1 up, regions
\* in ascending order, displayed pages inside the range of their numbering,
\* titles of one line, without blanks around them, without a run of dots and
\* not starting like a directive
Admissible(B) ==
    /\ \A k \in DOMAIN B.bookmark :
          LET bm == B.bookmark[k]
          IN  /\ bm.level >= 1
              /\ Strip(bm.title) = bm.title
              /\ Range(bm.title) \cap LineBreaks = {}
              /\ ~HasDotRun(bm.title)
              /\ ~StartsWith(bm.title, <<"!", "!", "!">>)
              /\ ExportPage(bm, B.page_label, PageLabelIndex(bm, B.page_label)).err = "none"
    /\ \A k \in 1..(Len(B.page_label) - 1) :
          B.page_label[k].new_index < B.page_label[k + 1].new_index
    /\ \A k \in DOMAIN B.page_label :
          B.page_label[k].num_start >= 1 /\ B.page_label[k].new_index >= 1

\* C1: for every admissible bookmark set B, import_bmk(export_bmk(B)) with the
\* default collapse_level and level_indent returns as many bookmarks as B has,
\* the i-th with the level, title and absolute page of the i-th of B.
C1_RoundTrip ==
    (bk_mode = "trip" /\ bk_pc \in {"returned", "raised"} /\ Admissible(bk_B)) =>
        /\ bk_pc = "returned"
        /\ Len(bk_out.bookmark) = Len(bk_B.bookmark)
        /\ \A k \in DOMAIN bk_B.bookmark :
              /\ bk_out.bookmark[k].level = bk_B.bookmark[k].level
              /\ bk_out.bookmark[k].title = bk_B.bookmark[k].title
              /\ bk_out.bookmark[k].page = bk_B.bookmark[k].page

\* C7: on every text, import_bmk returns or raises InvalidBookmarkSyntaxError;
\* no other error kind escapes, whatever the value of a directive.
C7_OnlySyntaxError ==
    (bk_mode = "text" /\ bk_pc = "raised") => bk_err = "InvalidBookmarkSyntaxError"

\* the BookmarkEntry invariant: levels from 1 up, the first entry at level 1,
\* no entry more than one level below the entry before it
LevelsWellFormed(bms) ==
    \A k \in DOMAIN bms :
        /\ bms[k].level >= 1
        /\ k = 1 => bms[k].level = 1
        /\ k > 1 => bms[k].level <= bms[k - 1].level + 1

\* C8: every bookmark sequence import_bmk returns (any accepted text, any
\* level_indent directives) and every one import_pdftk returns (any accepted
\* dump) satisfies the BookmarkEntry invariant.
C8_LevelInvariant ==
    /\ (bk_mode = "text" /\ bk_pc = "returned") => LevelsWellFormed(bk_out.bookmark)
    /\ (pk_pc = "returned" /\ pk_err = "none") => LevelsWellFormed(pk_out.bookmark)

\* C9: the page-label sequence import_bmk returns, for any accepted text and
\* any order of directives, has strictly ascending new_index and every
\* region's num_style is one of Arabic, Roman, Letters.
C9_RegionsWellFormed ==
    (bk_mode = "text" /\ bk_pc = "returned") =>
        /\ \A k \in 1..(Len(bk_out.page_label) - 1) :
              bk_out.page_label[k].new_index < bk_out.page_label[k + 1].new_index
        /\ \A k \in DOMAIN bk_out.page_label :
              bk_out.page_label[k].num_style \in NumStyles

\* C18: whenever import_bmk appends a bookmark, the page-label region appended
\* last has exactly the new_index, num_start and num_style the bookmark's page
\* token was decoded with, for every order of directives and bookmark lines
\* (num_start or num_style directives after a bookmark line included).
C18_RegionConsistency ==
    [][(bk_mode = "text" /\ Len(bk_out'.bookmark) = Len(bk_out.bookmark) + 1) =>
          /\ bk_out'.page_label # <<>>
          /\ bk_out'.page_label[Len(bk_out'.page_label)] =
                [new_index |-> bk_cfg.new_index, num_start |-> bk_cfg.num_start,
                 num_style |-> bk_cfg.num_style]]_vars

\* the positions of the bookmark lines of the exported text, in order
BookmarkLinePositions ==
    LET ps == {p \in DOMAIN bk_lines :
                  Strip(bk_lines[p]) # <<>> /\ ~StartsWith(bk_lines[p], <<"!", "!", "!">>)}
    IN  [k \in 1..Cardinality(ps) |->
            CHOOSE p \in ps : Cardinality({q \in ps : q < p}) = k - 1]

CollapseDirectiveStart ==
    <<"!", "!", "!", " ", "c", "o", "l", "l", "a", "p", "s", "e", "_", "l", "e", "v", "e", "l", " ", "=", " ">>

IsCollapseDirective(line) == StartsWith(line, CollapseDirectiveStart)

\* the threshold in force after the first p lines of the exported text: the
\* value of the last collapse_level directive among them, 0 when there is none
RECURSIVE ThresholdAfter(_)
ThresholdAfter(p) ==
    IF p < 1 THEN 0
    ELSE IF IsCollapseDirective(bk_lines[p])
         THEN StrToInt(From(bk_lines[p], Len(CollapseDirectiveStart) + 1)).val
         ELSE ThresholdAfter(p - 1)

\* the flag the import rule gives a level under a threshold
FlagUnder(threshold, level) == threshold # 0 /\ level >= threshold

\* C20: import_bmk of the text export_bmk returns, started with collapse_level
\* 0, gives every bookmark the collapse flag it had before the export, for
\* arbitrary flags and levels >= 1; and a collapse_level directive stands
\* before a bookmark line exactly when the threshold in force would give that
\* bookmark the wrong flag.
C20_CollapseRoundTrip ==
    (bk_mode = "trip" /\ bk_pc \in {"returned", "raised"}) =>
        /\ bk_pc = "returned"
        /\ Len(bk_out.bookmark) = Len(bk_B.bookmark)
        /\ \A k \in DOMAIN bk_B.bookmark :
              bk_out.bookmark[k].collapse = bk_B.bookmark[k].collapse
        /\ Len(BookmarkLinePositions) = Len(bk_B.bookmark)
        /\ \A k \in DOMAIN bk_B.bookmark :
              LET p == BookmarkLinePositions[k]
              IN  IsCollapseDirective(bk_lines[p - 1])
                  <=> (bk_B.bookmark[k].collapse
                          # FlagUnder(ThresholdAfter(p - 2), bk_B.bookmark[k].level))

(***************************************************************************)
(* Title codec of the marking language: _pdfmark_unicode and               *)
(* _pdfmark_unicode_decode                                                 *)
(***************************************************************************)
\* the code points str.encode('utf-16-be') refuses: the surrogates
Surrogates == 55296..57343

\* _pdfmark_unicode as a call: [err, val]. A text that is not ASCII is encoded
\* with string.encode('utf-16-be'), which raises on a surrogate code point
pdfmark_unicode_call(string) ==
    IF ~IsAscii(string) /\ \E k \in DOMAIN string : CodePoint(string[k]) \in Surrogates
    THEN [err |-> "UnicodeEncodeError", val |-> <<>>]
    ELSE [err |-> "none", val |-> pdfmark_unicode(string)]

\* s[start:stop:step] for start >= 0 and step > 0 (positions counted from 0,
\* a negative stop counted from the end)
PySlice(s, start, stop, step) ==
    LET n     == Len(s)
        lo    == IF start > n THEN n ELSE start
        hi    == IF stop < 0 THEN (IF n + stop < 0 THEN 0 ELSE n + stop)
                 ELSE (IF stop > n THEN n ELSE stop)
        count == IF hi > lo THEN (hi - lo + step - 1) \div step ELSE 0
    IN  [k \in 1..count |-> s[lo + (k - 1) * step + 1]]

\* s.endswith
EndsWith(s, suffix) ==
    Len(suffix) <= Len(s) /\ SubSeq(s, Len(s) - Len(suffix) + 1, Len(s)) = suffix

LowerHexDigits == <<"0", "1", "2", "3", "4", "5", "6", "7", "8", "9", "a", "b", "c", "d", "e", "f">>

\* the value of a hexadecimal digit, -1 for another character
HexValue(c) ==
    IF c \in Range(HexDigits) THEN IndexOf(HexDigits, c) - 1
    ELSE IF c \in Range(LowerHexDigits) THEN IndexOf(LowerHexDigits, c) - 1
    ELSE 0 - 1

\* bytes.decode('utf-16-be') from 16-bit units on: [err, val]
RECURSIVE Utf16Decode(_)
Utf16Decode(units) ==
    IF units = <<>> THEN [err |-> "none", val |-> <<>>]
    ELSE LET u == Head(units)
         IN  IF u \in 55296..56319
             THEN IF Len(units) >= 2 /\ units[2] \in 56320..57343
                  THEN LET rest == Utf16Decode(Tail(Tail(units)))
                           cp   == 65536 + (u - 55296) * 1024 + (units[2] - 56320)
                       IN  IF rest.err # "none" THEN rest
                           ELSE [err |-> "none", val |-> <<Chr(cp)>> \o rest.val]
                  ELSE [err |-> "UnicodeDecodeError", val |-> <<>>]
             ELSE IF u \in 56320..57343 THEN [err |-> "UnicodeDecodeError", val |-> <<>>]
             ELSE LET rest == Utf16Decode(Tail(units))
                  IN  IF rest.err # "none" THEN rest
                      ELSE [err |-> "none", val |-> <<Chr(u)>> \o rest.val]

\* _pdfmark_unicode_decode: [err, val]
pdfmark_unicode_decode(string) ==
    LET x1s   == PySlice(string, 5, 0 - 2, 2)
        x2s   == PySlice(string, 6, 0 - 1, 2)
        pairs == IF Len(x1s) < Len(x2s) THEN Len(x1s) ELSE Len(x2s)
        b     == [k \in 1..pairs |-> 16 * HexValue(x1s[k]) + HexValue(x2s[k])]
        units == [k \in 1..(pairs \div 2) |-> 256 * b[2 * k - 1] + b[2 * k]]
    IN  IF ~(StartsWith(string, <<"<", "F", "E", "F", "F">>) /\ EndsWith(string, <<">">>))
        THEN [err |-> "Exception", val |-> <<>>]
        ELSE IF \E k \in 1..pairs : HexValue(x1s[k]) < 0 \/ HexValue(x2s[k]) < 0
        THEN [err |-> "ValueError", val |-> <<>>]
        ELSE IF pairs % 2 # 0 THEN [err |-> "UnicodeDecodeError", val |-> <<>>]
        ELSE Utf16Decode(units)

\* longest title given to the codec, and the characters it is made of: two
\* ASCII characters (one with an escape), a character of the basic plane, one
\* beyond it, and a lone surrogate (the value of chr(55296), which
\* _unicode_replace returns for '&#55296;')
MaxTitleLen == 3
TitleChars == {"a", "(", "U+03B1", "U+1F600", "U+D800"}
Titles == UNION {[1..n -> TitleChars] : n \in 0..MaxTitleLen}

UnicodeIdle ==
    /\ uc_in = <<>>
    /\ uc_pc = "idle"
    /\ uc_enc = <<>>
    /\ uc_dec = <<>>
    /\ uc_err = "none"

UnicodeStart ==
    /\ uc_in \in Titles
    /\ uc_pc = "start"
    /\ uc_enc = <<>>
    /\ uc_dec = <<>>
    /\ uc_err = "none"

\* _pdfmark_unicode(s)
CallPdfmarkUnicode ==
    /\ uc_pc = "start"
    /\ \E r \in {pdfmark_unicode_call(uc_in)} :
          /\ uc_enc' = r.val
          /\ uc_err' = r.err
          /\ uc_pc' = IF r.err = "none" THEN "encoded" ELSE "raised"
    /\ UNCHANGED <<uc_in, uc_dec>>
    /\ UNCHANGED notUc

\* _pdfmark_unicode_decode of what _pdfmark_unicode returned
CallPdfmarkUnicodeDecode ==
    /\ uc_pc = "encoded"
    /\ \E r \in {pdfmark_unicode_decode(uc_enc)} :
          /\ uc_dec' = r.val
          /\ uc_err' = r.err
          /\ uc_pc' = IF r.err = "none" THEN "decoded" ELSE "raised"
    /\ UNCHANGED <<uc_in, uc_enc>>
    /\ UNCHANGED notUc

UnicodeNext ==
    \/ CallPdfmarkUnicode
    \/ CallPdfmarkUnicodeDecode

\* C15: for every text s with at least one non-ASCII code point,
\* _pdfmark_unicode(s) is '<FEFF', then two uppercase hexadecimal digits for
\* each byte of the UTF-16 big-endian encoding of s, then '>', and
\* _pdfmark_unicode_decode of it is s.
C15_UnicodeRoundTrip ==
    (uc_pc # "idle" /\ ~IsAscii(uc_in)) =>
        /\ uc_pc # "raised"
        /\ uc_pc \in {"encoded", "decoded"} =>
              uc_enc = <<"<", "F", "E", "F", "F">> \o HexBytes(Utf16Be(uc_in)) \o <<">">>
        /\ uc_pc = "decoded" => uc_dec = uc_in

(***************************************************************************)
(* Command line: main, with the importers, exporters and external tools    *)
(* taken to succeed                                                        *)
(***************************************************************************)
\* the choices of --format
Formats == {"bmk", "none", "pdftk", "pdfmark", "json"}

MainArgs == [format : Formats, bookmark : BOOLEAN, pdf : BOOLEAN, output_pdf : BOOLEAN]

MainIdle ==
    /\ ma_args = [format |-> "bmk", bookmark |-> FALSE, pdf |-> FALSE, output_pdf |-> FALSE]
    /\ ma_pc = "idle"
    /\ ma_pdfmark = FALSE
    /\ ma_stdout = <<>>
    /\ ma_stderr = <<>>
    /\ ma_ret = 0 - 1
    /\ ma_err = "none"

MainStart ==
    /\ ma_args \in MainArgs
    /\ ma_pc = "check"
    /\ ma_pdfmark = FALSE
    /\ ma_stdout = <<>>
    /\ ma_stderr = <<>>
    /\ ma_ret = 0 - 1
    /\ ma_err = "none"

\* echo(s): sys.stdout is called like a function; a text stream is not
\* callable, so the call raises TypeError before anything is written
echo(stdout, s) == [err |-> "TypeError", out |-> stdout]

\* main: the check of the argument combination
MainCheck ==
    /\ ma_pc = "check"
    /\ IF (~ma_args.bookmark /\ ~ma_args.pdf) \/ (~ma_args.pdf /\ ma_args.output_pdf)
       THEN /\ ma_stderr' = Append(ma_stderr, "usage")
            /\ ma_ret' = 1
            /\ ma_pc' = "returned"
       ELSE /\ ma_pc' = "import"
            /\ UNCHANGED <<ma_stderr, ma_ret>>
    /\ UNCHANGED <<ma_args, ma_pdfmark, ma_stdout, ma_err>>
    /\ UNCHANGED notMa

\* main: import_bmk of the bookmark file, or the pdftk dump, echoed when the
\* format is pdftk, and import_pdftk
MainImport ==
    /\ ma_pc = "import"
    /\ \E r \in {IF ~ma_args.bookmark /\ ma_args.format = "pdftk"
                 THEN echo(ma_stdout, "pdftk")
                 ELSE [err |-> "none", out |-> ma_stdout]} :
          /\ ma_stdout' = r.out
          /\ ma_err' = r.err
          /\ ma_pc' = IF r.err = "none" THEN "export" ELSE "raised"
    /\ UNCHANGED <<ma_args, ma_pdfmark, ma_stderr, ma_ret>>
    /\ UNCHANGED notMa

\* main: export_pdfmark when the format or the output file asks for it, then
\* the echo of the selected format
MainExport ==
    /\ ma_pc = "export"
    /\ ma_pdfmark' = (ma_args.format = "pdfmark" \/ (ma_args.output_pdf /\ ma_args.pdf))
    /\ \E r \in {IF ma_args.format \in {"json", "bmk", "pdfmark"}
                 THEN echo(ma_stdout, ma_args.format)
                 ELSE [err |-> "none", out |-> ma_stdout]} :
          /\ ma_stdout' = r.out
          /\ ma_err' = r.err
          /\ ma_pc' = IF r.err = "none" THEN "generate" ELSE "raised"
    /\ UNCHANGED <<ma_args, ma_stderr, ma_ret>>
    /\ UNCHANGED notMa

\* main: generate_pdf when an output file is given, and return 0
MainReturn ==
    /\ ma_pc = "generate"
    /\ ma_ret' = 0
    /\ ma_pc' = "returned"
    /\ UNCHANGED <<ma_args, ma_pdfmark, ma_stdout, ma_stderr, ma_err>>
    /\ UNCHANGED notMa

MainNext ==
    \/ MainCheck
    \/ MainImport
    \/ MainExport
    \/ MainReturn

\* the argument combinations main refuses
UsageError(args) == (~args.bookmark /\ ~args.pdf) \/ (~args.pdf /\ args.output_pdf)

\* C16: main returns non-zero, after printing the usage, exactly when neither
\* --bookmark nor --pdf is given or --output-pdf is given without --pdf; for
\* every other combination it writes the output of the selected format (bmk,
\* json, pdfmark, pdftk) to standard output and returns 0.
C16_ExitCode ==
    ma_pc \in {"returned", "raised"} =>
        IF UsageError(ma_args)
        THEN ma_pc = "returned" /\ ma_ret # 0 /\ ma_stderr = <<"usage">>
        ELSE /\ ma_pc = "returned"
             /\ ma_ret = 0
             /\ ma_args.format # "none" => ma_stdout = <<ma_args.format>>

(***************************************************************************)
(* Rendering: generate_pdf (pdf_bookmark.py) and merge_pdfs (pdf-merge.py) *)
(* Each statement that touches the file system or runs Ghostscript is a    *)
(* step; the environment decides whether it succeeds.                      *)
(***************************************************************************)
\* most input pdfs given to merge_pdfs
MaxMergeInputs == 2

\* tempfile.mkstemp(prefix=...): the file is named after its prefix
MARK_FILE == "pdfmark_"
NOOP_FILE == "pdfmark-noop-"
RESTORE_FILE == "pdfmark-restore-"
MARKS_FILE == "pdfmarks-"

RenderIdle ==
    /\ tf_fn = "idle"
    /\ tf_arg = [pdfmarks |-> FALSE, output |-> FALSE, pause |-> FALSE, inputs |-> 0]
    /\ tf_pc = "returned"
    /\ tf_files = {}
    /\ tf_fds = {}
    /\ tf_args = <<>>

RenderStart ==
    /\ tf_fn \in {"generate_pdf", "merge_pdfs"}
    /\ tf_arg \in [pdfmarks : BOOLEAN, output : BOOLEAN, pause : BOOLEAN,
                   inputs : 1..MaxMergeInputs]
    \* generate_pdf always writes to output_pdf, from one pdf, without a pause
    /\ tf_fn = "generate_pdf" => (tf_arg.output /\ ~tf_arg.pause /\ tf_arg.inputs = 1)
    /\ tf_pc = "begin"
    /\ tf_files = {}
    /\ tf_fds = {}
    /\ tf_args = <<>>

\* an exception leaves the function: nothing after the failing statement runs
Raise ==
    /\ tf_pc' = "raised"
    /\ UNCHANGED <<tf_fn, tf_arg, tf_args>>

\* mkstemp, os.write, os.close of one file written in one go
\* (_write_pdfmark_noop_file, _write_pdfmark_restore_file, _write_markfile):
\* mkstemp can fail before the file exists; os.write can fail with the file
\* on disk and its descriptor still open
WriteTempFile(name, next) ==
    \/ /\ Raise /\ UNCHANGED <<tf_files, tf_fds>>
    \/ /\ Raise /\ tf_files' = tf_files \cup {name} /\ tf_fds' = tf_fds \cup {name}
    \/ /\ tf_files' = tf_files \cup {name}
       /\ tf_args' = Append(tf_args, name)
       /\ tf_pc' = next
       /\ UNCHANGED <<tf_fn, tf_arg, tf_fds>>

\* generate_pdf: mkstemp(prefix='pdfmark_'), then 'with open(fd, 'w')' writes
\* pdfmark; the with statement closes the descriptor also when the write fails
GeneratePdfWriteMark ==
    /\ tf_fn = "generate_pdf" /\ tf_pc = "begin"
    /\ \/ /\ Raise /\ UNCHANGED <<tf_files, tf_fds>>
       \/ /\ Raise /\ tf_files' = tf_files \cup {MARK_FILE} /\ UNCHANGED tf_fds
       \/ /\ tf_files' = tf_files \cup {MARK_FILE}
          /\ tf_pc' = "noop"
          /\ UNCHANGED <<tf_fn, tf_arg, tf_fds, tf_args>>
    /\ UNCHANGED notTf

\* generate_pdf: pdfmark_noop = _write_pdfmark_noop_file()
GeneratePdfWriteNoop ==
    /\ tf_fn = "generate_pdf" /\ tf_pc = "noop"
    /\ WriteTempFile(NOOP_FILE, "restore")
    /\ UNCHANGED notTf

\* generate_pdf: pdfmark_restore = _write_pdfmark_restore_file()
GeneratePdfWriteRestore ==
    /\ tf_fn = "generate_pdf" /\ tf_pc = "restore"
    /\ WriteTempFile(RESTORE_FILE, "call")
    /\ UNCHANGED notTf

\* generate_pdf: call(['gs', ..., pdfmark_noop, pdf, pdfmark_restore,
\* pdfmark_file]); call raises when gs exits with a non-zero status
GeneratePdfCall ==
    /\ tf_fn = "generate_pdf" /\ tf_pc = "call"
    /\ \/ /\ tf_pc' = "remove"
          /\ tf_args' = <<NOOP_FILE, "pdf", RESTORE_FILE, MARK_FILE>>
          /\ UNCHANGED <<tf_fn, tf_arg>>
       \/ Raise
    /\ UNCHANGED <<tf_files, tf_fds>>
    /\ UNCHANGED notTf

\* generate_pdf: the three os.remove calls, then the function returns
GeneratePdfRemove ==
    /\ tf_fn = "generate_pdf" /\ tf_pc = "remove"
    /\ tf_files' = tf_files \ {NOOP_FILE, RESTORE_FILE, MARK_FILE}
    /\ tf_pc' = "returned"
    /\ UNCHANGED <<tf_fn, tf_arg, tf_fds, tf_args>>
    /\ UNCHANGED notTf

\* merge_pdfs: if pdfmarks: mark_noop = _write_pdfmark_noop_file(...)
MergePdfsWriteNoop ==
    /\ tf_fn = "merge_pdfs" /\ tf_pc = "begin"
    /\ IF tf_arg.pdfmarks
       THEN WriteTempFile(NOOP_FILE, "inputs")
       ELSE tf_pc' = "inputs" /\ UNCHANGED <<tf_fn, tf_arg, tf_files, tf_fds, tf_args>>
    /\ UNCHANGED notTf

\* merge_pdfs: args.extend([pdf.filename for pdf in inputs])
MergePdfsInputs ==
    /\ tf_fn = "merge_pdfs" /\ tf_pc = "inputs"
    /\ tf_args' = tf_args \o [k \in 1..tf_arg.inputs |-> "pdf"]
    /\ tf_pc' = "restore"
    /\ UNCHANGED <<tf_fn, tf_arg, tf_files, tf_fds>>
    /\ UNCHANGED notTf

\* merge_pdfs: if pdfmarks: mark_restore = _write_pdfmark_restore_file(...)
MergePdfsWriteRestore ==
    /\ tf_fn = "merge_pdfs" /\ tf_pc = "restore"
    /\ IF tf_arg.pdfmarks
       THEN WriteTempFile(RESTORE_FILE, "markfile")
       ELSE tf_pc' = "markfile" /\ UNCHANGED <<tf_fn, tf_arg, tf_files, tf_fds, tf_args>>
    /\ UNCHANGED notTf

\* merge_pdfs: markfile = _write_markfile(...), which waits for a line of input
\* when pause_for_manual_tweaking is set
MergePdfsWriteMarkfile ==
    /\ tf_fn = "merge_pdfs" /\ tf_pc = "markfile"
    /\ WriteTempFile(MARKS_FILE, "invoke")
    /\ UNCHANGED notTf

\* merge_pdfs: invoke(args, ...), whose 'assert status == 0' fails when gs
\* exits with a non-zero status
MergePdfsInvoke ==
    /\ tf_fn = "merge_pdfs" /\ tf_pc = "invoke"
    /\ \/ tf_pc' = "unlink" /\ UNCHANGED <<tf_fn, tf_arg, tf_args>>
       \/ Raise
    /\ UNCHANGED <<tf_files, tf_fds>>
    /\ UNCHANGED notTf

\* merge_pdfs: the unlink calls, then the function returns
MergePdfsUnlink ==
    /\ tf_fn = "merge_pdfs" /\ tf_pc = "unlink"
    /\ tf_files' = tf_files \ ((IF tf_arg.pdfmarks THEN {NOOP_FILE, RESTORE_FILE} ELSE {})
                                 \cup {MARKS_FILE})
    /\ tf_pc' = "returned"
    /\ UNCHANGED <<tf_fn, tf_arg, tf_fds, tf_args>>
    /\ UNCHANGED notTf

RenderNext ==
    \/ GeneratePdfWriteMark
    \/ GeneratePdfWriteNoop
    \/ GeneratePdfWriteRestore
    \/ GeneratePdfCall
    \/ GeneratePdfRemove
    \/ MergePdfsWriteNoop
    \/ MergePdfsInputs
    \/ MergePdfsWriteRestore
    \/ MergePdfsWriteMarkfile
    \/ MergePdfsInvoke
    \/ MergePdfsUnlink

(***************************************************************************)
(* Properties of rendering                                                 *)
(***************************************************************************)
\* C5: on every exit path of generate_pdf and merge_pdfs, a return or a
\* propagated error, every temporary file the call created has been deleted.
C5_NoTempFileLeft ==
    tf_pc \in {"returned", "raised"} => tf_files = {}

(***************************************************************************)
(* Specifications, one per component                                       *)
(***************************************************************************)
MarkInit == MarkStart /\ NumeralIdle /\ RenderIdle /\ PdftkIdle /\ BmkIdle /\ UnicodeIdle /\ MainIdle
SpecMark == MarkInit /\ [][MarkNext]_vars

NumeralInit == NumeralStart /\ MarkIdle /\ RenderIdle /\ PdftkIdle /\ BmkIdle /\ UnicodeIdle /\ MainIdle
SpecNumeral == NumeralInit /\ [][NumeralNext]_vars

RenderInit == RenderStart /\ MarkIdle /\ NumeralIdle /\ PdftkIdle /\ BmkIdle /\ UnicodeIdle /\ MainIdle
SpecRender == RenderInit /\ [][RenderNext]_vars

PdftkInit == PdftkStart /\ MarkIdle /\ NumeralIdle /\ RenderIdle /\ BmkIdle /\ UnicodeIdle /\ MainIdle
SpecPdftk == PdftkInit /\ [][PdftkNext]_vars

UnicodeInit ==
    UnicodeStart /\ MarkIdle /\ NumeralIdle /\ RenderIdle /\ PdftkIdle /\ BmkIdle /\ MainIdle
SpecUnicode == UnicodeInit /\ [][UnicodeNext]_vars

MainInit ==
    MainStart /\ MarkIdle /\ NumeralIdle /\ RenderIdle /\ PdftkIdle /\ BmkIdle /\ UnicodeIdle
SpecMain == MainInit /\ [][MainNext]_vars

BmkInit == BmkStart /\ MarkIdle /\ NumeralIdle /\ RenderIdle /\ PdftkIdle /\ UnicodeIdle /\ MainIdle
SpecBmk == BmkInit /\ [][BmkNext]_vars

=============================================================================
